---- MODULE Spec2Model ----
(***************************************************************************)
(* A model of jgscm (src/jgscm/__init__.py): a Jupyter contents manager    *)
(* and checkpoint store on top of a flat bucket/object store.              *)
(*                                                                         *)
(* Strings are sequences of tokens.  A token is one character ("/", ".",   *)
(* "-", "d", ...) or a run of characters that no operation of the program  *)
(* splits ("ipynb", "_checkpoints", a uuid).  No token is the beginning of *)
(* another one, so the order of token sequences is the byte order of the   *)
(* strings and startswith of tokens is startswith of characters.           *)
(* Every Python function is an operator from a world record w              *)
(* (the backend store, its clock, the manager's bucket cache and the       *)
(* uuids drawn) to a record [w, exc, ...]: the world it leaves, the        *)
(* exception it raises ("none" when it returns) and what it returns.       *)
(* Bind(v, Op) names an intermediate result, as a local variable does.     *)
(***************************************************************************)
EXTENDS Naturals, Integers, Sequences, FiniteSets, TLC

VARIABLES
    buckets,        \* backend: the names of the buckets that exist
    blobs,          \* backend: <<bucket, key>> -> [data, content_type, updated]
    now,            \* backend: the clock that stamps blob.updated
    cache_buckets,  \* the manager's cache_buckets trait (line 165)
    cache_set,      \* whether the attribute self._bucket_cache exists
    bucket_cache,   \* the names self._bucket_cache maps to a bucket handle
    created,        \* the checkpoint ids uuid4 has produced, oldest first
    hooks,          \* whether pre_save_hook and post_save_hook are configured
    hook_log,       \* the calls the hooks received and the errors logged
    result          \* what the last operation was given and what it returned

vars == <<buckets, blobs, now, cache_buckets, cache_set, bucket_cache,
          created, hooks, hook_log, result>>

-----------------------------------------------------------------------------
(* Bounds of the model. *)

\* The backend clock stops the model after this many writes.
MaxClock == 3
\* The clock bound of the specification of the checkpoints.
MaxCheckpointClock == 4
\* The number of uuids the checkpoint store may draw.
MaxIds == 3
\* The clock bound of the specification of file contents and hooks.
MaxContentClock == 2
\* The number of hook calls and logged hook errors that are kept.
MaxHookLog == 6
\* The clock bound of the specification of the bucket cache.
MaxCacheClock == 2
\* The clock bound of the specification of the directory markers.
MaxMarkerClock == 3
\* the clock's bound under SpecSiblings
MaxSiblingClock == 3
\* The backend round trips of one operation before which another client of
\* the backend may act.
MaxRoundTrips == 5

-----------------------------------------------------------------------------
(* Tokens and strings. *)

Bind(v, Op(_)) == Op(v)

Slash == "/"
Dot == "."
Dash == "-"
Quoted == "%2F"     \* urllib quote("/", safe="")

\* The values uuid.uuid4() gives (lines 37 and 52): uk stands for the 36
\* characters 00000000-0000-4000-8000-00000000000k.
Uuids == {"u1", "u2", "u3", "u4"}

\* The tokens in the byte order of the strings they stand for: "%", "-",
\* ".", "/", the digit 0 of the uuids, the digits, "_", the letters, "~".
Alphabet == <<"%2F", "-", ".", "/", "u1", "u2", "u3", "u4", "1", "2", "3",
              "__pycache__", "_checkpoints", "b", "d", "e", "f", "g", "h",
              "ipynb", "n", "o", "s", "t", "x", "y", "z", "~">>

Rank(t) == CHOOSE i \in 1..Len(Alphabet) : Alphabet[i] = t

StartsWith(s, p) == Len(p) <= Len(s) /\ SubSeq(s, 1, Len(p)) = p

EndsWith(s, p) ==
    Len(p) <= Len(s) /\ SubSeq(s, Len(s) - Len(p) + 1, Len(s)) = p

Contains(s, t) == \E i \in 1..Len(s) : s[i] = t

\* str.find / str.rfind of one token, counted from 1; 0 is Python's -1.
Find(s, t) ==
    IF \E i \in 1..Len(s) : s[i] = t
    THEN CHOOSE i \in 1..Len(s) : s[i] = t /\ \A j \in 1..(i - 1) : s[j] # t
    ELSE 0

RFind(s, t) ==
    IF \E i \in 1..Len(s) : s[i] = t
    THEN CHOOSE i \in 1..Len(s) : s[i] = t /\ \A j \in (i + 1)..Len(s) : s[j] # t
    ELSE 0

\* s[:-1]
DropLast(s) == SubSeq(s, 1, Len(s) - 1)

\* path[1:] when path.startswith("/")
StripSlash(path) ==
    IF Len(path) > 0 /\ path[1] = Slash THEN Tail(path) ELSE path

\* path + "/" unless path.endswith("/")
WithSlash(path) ==
    IF Len(path) > 0 /\ path[Len(path)] = Slash THEN path
    ELSE Append(path, Slash)

\* a < b in the byte order of strings
KeyLess(a, b) ==
    \E i \in 1..Len(b) :
        /\ \A j \in 1..(i - 1) : j <= Len(a) /\ a[j] = b[j]
        /\ (i > Len(a) \/ (i <= Len(a) /\ Rank(a[i]) < Rank(b[i])))

RECURSIVE SortKeys(_)
SortKeys(S) ==
    IF S = {} THEN <<>>
    ELSE Bind(CHOOSE a \in S : \A b \in S \ {a} : KeyLess(a, b),
              LAMBDA m : <<m>> \o SortKeys(S \ {m}))

Range(f) == {f[i] : i \in DOMAIN f}

\* os.path.splitext: split at the last "." that follows the last "/" and is
\* not one of the leading dots of that last component.
SplitAt(p, sep, dot) ==
    IF dot > sep /\ \E k \in (sep + 1)..(dot - 1) : p[k] # Dot
    THEN <<SubSeq(p, 1, dot - 1), SubSeq(p, dot, Len(p))>>
    ELSE <<p, <<>>>>

splitext(p) == SplitAt(p, RFind(p, Slash), RFind(p, Dot))

-----------------------------------------------------------------------------
(* Results of the program's functions. *)

Ok(w) == [w |-> w, exc |-> "none"]
Raise(w, e) == [w |-> w, exc |-> e]

None == [kind |-> "none"]

-----------------------------------------------------------------------------
(* The storage backend (gcloud.storage), as the program uses it. *)

\* The buckets the backend denies this client: Client.get_bucket raises
\* Forbidden for them.
forbidden_buckets == {<<"b", "3">>}

\* What another client of the backend does while an operation of the
\* manager runs: before the round trip `at` of the operation it deletes
\* `bucket` and what it holds.  NoStrike: no other client acts.
NoStrike == [at |-> 0, bucket |-> <<>>]

\* One round trip to the backend is about to be made: the world in which the
\* backend answers it.
RoundTrip(w) ==
    IF w.strike.at = 0 THEN w
    ELSE IF w.calls + 1 # w.strike.at THEN [w EXCEPT !.calls = @ + 1]
    ELSE [w EXCEPT !.calls = @ + 1,
                   !.buckets = @ \ {w.strike.bucket},
                   !.blobs = [x \in {y \in DOMAIN w.blobs :
                                        y[1] # w.strike.bucket} |->
                                w.blobs[x]]]

\* The permutation of the sequence keys that the number seed selects; the
\* seeds 0 .. Len(keys)! - 1 select every permutation.
RECURSIVE Arrange(_, _)
Arrange(keys, seed) ==
    IF keys = <<>> THEN <<>>
    ELSE Bind((seed % Len(keys)) + 1, LAMBDA i :
           <<keys[i]>> \o Arrange(SubSeq(keys, 1, i - 1)
                                     \o SubSeq(keys, i + 1, Len(keys)),
                                  seed \div Len(keys)))

\* Iterating it.prefixes, a set of str: the order is the one the hash seed
\* of the process gives, any order.
SetOrder(w, S) == Arrange(SortKeys(S), w.hashseed)

BucketKeys(w, b) == {bk[2] : bk \in {x \in DOMAIN w.blobs : x[1] = b}}

\* A Blob the backend returned: its bucket, its name and its properties.
BlobOf(w, b, k) ==
    [kind |-> "blob", bucket |-> b, name |-> k] @@ w.blobs[<<b, k>>]

\* Blob.exists(): a missing bucket makes it False as well.
blob_exists(w, b, k) == b \in w.buckets /\ <<b, k>> \in DOMAIN w.blobs

\* Bucket.get_blob(name): the blob, or None.
get_blob(w, b, k) == IF blob_exists(w, b, k) THEN BlobOf(w, b, k) ELSE None

\* The answer of a listing: the blobs named in `direct`, in name order, and
\* the prefixes of the names in `deeper` up to the first "/" after `n` tokens.
Listing(w, b, n, direct, deeper) ==
    [exc |-> "none",
     files |-> Bind(SortKeys(direct),
                    LAMBDA ks : [i \in 1..Len(ks) |-> BlobOf(w, b, ks[i])]),
     prefixes |-> {SubSeq(k, 1, n + Find(SubSeq(k, n + 1, Len(k)), Slash)) :
                       k \in deeper}]

\* Bucket.list_blobs(prefix, delimiter="/") read to its end: the blobs whose
\* name is prefix + (a rest without "/"), and it.prefixes, the set of
\* prefix + (a rest up to and including its first "/").  The program's
\* max_results (1024 at line 164) is above every listing of the model; the
\* listing of one result at line 483 is only tested for being empty.
list_blobs(w, b, prefix) ==
    IF b \notin w.buckets THEN [exc |-> "NotFound"]
    ELSE Bind({k \in BucketKeys(w, b) : StartsWith(k, prefix)},
              LAMBDA under :
                Listing(w, b, Len(prefix),
                    {k \in under :
                        ~Contains(SubSeq(k, Len(prefix) + 1, Len(k)), Slash)},
                    {k \in under :
                        Contains(SubSeq(k, Len(prefix) + 1, Len(k)), Slash)}))

\* Blob.upload_from_string: the write stamps the blob with the clock.
upload(w, b, k, data, ctype) ==
    Bind(RoundTrip(w), LAMBDA w1 :
      IF b \notin w1.buckets THEN Raise(w1, "NotFound")
      ELSE Ok([w1 EXCEPT
              !.blobs = [x \in DOMAIN w1.blobs \cup {<<b, k>>} |->
                           IF x = <<b, k>>
                           THEN [data |-> data, content_type |-> ctype,
                                 updated |-> w1.now]
                           ELSE w1.blobs[x]],
              !.now = w1.now + 1]))

\* Bucket.delete_blobs(blobs): one delete_blob, a round trip, for each blob
\* from files[i] on; a blob that is not there raises NotFound.  [w, exc]
RECURSIVE delete_blobs(_, _, _, _)
delete_blobs(w, b, files, i) ==
    IF i > Len(files) THEN Ok(w)
    ELSE Bind(RoundTrip(w), LAMBDA w1 :
           IF ~blob_exists(w1, b, files[i].name) THEN Raise(w1, "NotFound")
           ELSE delete_blobs(
                    [w1 EXCEPT !.blobs =
                        [x \in DOMAIN w1.blobs \ {<<b, files[i].name>>} |->
                            w1.blobs[x]]],
                    b, files, i + 1))

-----------------------------------------------------------------------------
(* JupyterGoogleStorageContentManager: path and bucket resolution. *)

\* path.split("/", 1): <<bucket, name>>
SplitFirst(path, i) ==
    IF i > 0 THEN <<SubSeq(path, 1, i - 1), SubSeq(path, i + 1, Len(path))>>
    ELSE <<path, <<>>>>

_parse_path(path) == SplitFirst(path, Find(path, Slash))

Handle(name) == [kind |-> "bucket", name |-> name]

\* _get_bucket with a miss kept in the cache as if it were a bucket.
LookedCachingMisses(w, name, throw, cache) ==
    IF name \in forbidden_buckets
    THEN [w |-> w, exc |-> "Forbidden", bucket |-> None]
    ELSE IF name \notin w.buckets
    THEN [w |-> IF cache THEN [w EXCEPT !.bucket_cache = @ \cup {name}]
                ELSE w,
          exc |-> IF throw THEN "NotFound" ELSE "none", bucket |-> None]
    ELSE [w |-> IF cache THEN [w EXCEPT !.bucket_cache = @ \cup {name}]
                ELSE w,
          exc |-> "none", bucket |-> Handle(name)]

GetBucketCachingMisses(w, name, throw) ==
    IF ~w.cache_buckets THEN LookedCachingMisses(RoundTrip(w), name, throw, FALSE)
    ELSE IF name \in w.bucket_cache
    THEN [w |-> [w EXCEPT !.cache_set = TRUE], exc |-> "none",
          bucket |-> Handle(name)]
    ELSE LookedCachingMisses(RoundTrip([w EXCEPT !.cache_set = TRUE]), name, throw,
                             TRUE)

\* client.get_bucket(name) and what _get_bucket makes of its answer
\* (lines 415-419 and 428-434): Forbidden passes through both except
\* clauses, NotFound is raised or turned into None, a bucket is put into
\* the cache when there is one.
Looked(w, name, throw, cache) ==
    IF name \in forbidden_buckets
    THEN [w |-> w, exc |-> "Forbidden", bucket |-> None]
    ELSE IF name \notin w.buckets
    THEN [w |-> w, exc |-> IF throw THEN "NotFound" ELSE "none",
          bucket |-> None]
    ELSE [w |-> IF cache THEN [w EXCEPT !.bucket_cache = @ \cup {name}]
                ELSE w,
          exc |-> "none", bucket |-> Handle(name)]

\* _get_bucket(name, throw): [w, exc, bucket], bucket the handle or None.
\* A cached handle is returned without asking the backend.
_get_bucket(w, name, throw) ==
    IF ~w.cache_buckets THEN Looked(RoundTrip(w), name, throw, FALSE)
    ELSE IF name \in w.bucket_cache
    THEN [w |-> [w EXCEPT !.cache_set = TRUE], exc |-> "none",
          bucket |-> Handle(name)]
    ELSE Looked(RoundTrip([w EXCEPT !.cache_set = TRUE]), name, throw, TRUE)

\* del self._bucket_cache[name]
del_bucket_cache(w, name) ==
    IF ~w.cache_set THEN Raise(w, "AttributeError")
    ELSE IF name \notin w.bucket_cache THEN Raise(w, "KeyError")
    ELSE Ok([w EXCEPT !.bucket_cache = @ \ {name}])

\* _get_blob_path: url_unescape(blob.path) without "/b/" and the first "/o/".
\* blob.path is "/b/<bucket>/o/" + quote(name, safe=""), and unescaping undoes
\* the quoting, so the result is <bucket>/<name>.
_get_blob_path(blob) == blob.bucket \o <<Slash>> \o blob.name

\* _get_blob_name: what follows the last "/" of the unescaped blob.path.
_get_blob_name(blob) ==
    SubSeq(blob.name, RFind(blob.name, Slash) + 1, Len(blob.name))

LastSegment(p) == SubSeq(p, RFind(p, Slash) + 1, Len(p))

_get_dir_name(path) ==
    LastSegment(IF Len(path) > 0 /\ path[Len(path)] = Slash
                THEN DropLast(path) ELSE path)

Fetched(w, exists, payload) ==
    [w |-> w, exc |-> "none", exists |-> exists, payload |-> payload]

\* FetchListing with the sub-prefixes of the listing left out of `exists`.
FetchListingFilesOnly(w, bucket_name, bucket_path, content) ==
    Bind(RoundTrip(w), LAMBDA w1 :
    Bind(list_blobs(w1, bucket_name, bucket_path), LAMBDA it :
      IF it.exc = "NotFound" THEN Fetched(w1, FALSE, None)
      ELSE Fetched(w1, it.files # <<>> \/ bucket_path = <<>>,
                   IF content
                   THEN [kind |-> "members", files |-> it.files,
                         folders |-> SetOrder(w1, {DropLast(f) :
                                                     f \in it.prefixes})]
                   ELSE None)))

\* FetchListing with the cache left as it is when the bucket is missing.
FetchListingKeepsEntry(w, bucket_name, bucket_path, content) ==
    Bind(RoundTrip(w), LAMBDA w1 :
    Bind(list_blobs(w1, bucket_name, bucket_path), LAMBDA it :
      IF it.exc = "NotFound" THEN Fetched(w1, FALSE, None)
      ELSE Bind(SetOrder(w1, {DropLast(f) : f \in it.prefixes}),
                LAMBDA folders :
             Fetched(w1,
                     it.files # <<>> \/ folders # <<>> \/ bucket_path = <<>>,
                     IF content
                     THEN [kind |-> "members", files |-> it.files,
                           folders |-> folders]
                     ELSE None))))

\* Lines 483-493 of _fetch: the listing and what it makes of it.
FetchListing(w, bucket_name, bucket_path, content) ==
    Bind(RoundTrip(w), LAMBDA w1 :
    Bind(list_blobs(w1, bucket_name, bucket_path), LAMBDA it :
      IF it.exc = "NotFound"
      THEN Bind(del_bucket_cache(w1, bucket_name), LAMBDA d :
             IF d.exc # "none" THEN Raise(d.w, d.exc)
             ELSE Fetched(d.w, FALSE, None))
      ELSE Bind(SetOrder(w1, {DropLast(f) : f \in it.prefixes}),
                LAMBDA folders :
             Fetched(w1,
                     it.files # <<>> \/ folders # <<>> \/ bucket_path = <<>>,
                     IF content
                     THEN [kind |-> "members", files |-> it.files,
                           folders |-> folders]
                     ELSE None))))

\* Lines 475-497 of _fetch, with the bucket resolved.
FetchIn(w, bucket, bucket_name, bucket_path, content) ==
    IF bucket = None THEN Fetched(w, FALSE, None)
    ELSE IF bucket_path = <<>>
    THEN FetchListing(w, bucket_name, bucket_path, content)
    ELSE IF bucket_path[Len(bucket_path)] = Slash
    \* blob.exists(), a round trip
    THEN Bind(RoundTrip(w), LAMBDA w1 :
           IF blob_exists(w1, bucket_name, bucket_path) /\ ~content
           THEN Fetched(w1, TRUE, None)
           ELSE FetchListing(w1, bucket_name, bucket_path, content))
    ELSE IF ~content
    \* line 495 returns the bound method Blob.exists, which is truthy
    THEN Fetched(w, TRUE, None)
    ELSE Bind(RoundTrip(w), LAMBDA w1 :
           Fetched(w1, get_blob(w1, bucket_name, bucket_path) # None,
                   get_blob(w1, bucket_name, bucket_path)))

\* _fetch(path, content): [w, exc, exists, payload]
_fetch(w, path, content) ==
    IF path = <<>>
    THEN Bind(RoundTrip(w), LAMBDA w1 :
           Fetched(w1, TRUE, [kind |-> "members", files |-> <<>>,
                              folders |-> SortKeys(w1.buckets)]))
    ELSE Bind(_parse_path(path), LAMBDA pp :
         Bind(_get_bucket(w, pp[1], FALSE), LAMBDA gb :
           IF gb.exc = "Forbidden" THEN Fetched(gb.w, TRUE, None)
           ELSE FetchIn(gb.w, gb.bucket, pp[1], pp[2], content)))

\* Lines 226-232 of file_exists, the bucket looked up.
FileExistsIn(w, gb, bucket_name, bucket_path) ==
    IF gb.exc # "none" THEN [w |-> gb.w, exc |-> gb.exc, ret |-> FALSE]
    ELSE IF \/ gb.bucket = None
            \/ bucket_path = <<>>
            \/ bucket_path[Len(bucket_path)] = Slash
    THEN [w |-> gb.w, exc |-> "none", ret |-> FALSE]
    \* blob.exists(), a round trip
    ELSE Bind(RoundTrip(gb.w), LAMBDA w1 :
           [w |-> w1, exc |-> "none",
            ret |-> blob_exists(w1, bucket_name, bucket_path)])

\* file_exists(path): [w, exc, ret]
file_exists(w, path) ==
    IF path = <<>> THEN [w |-> w, exc |-> "none", ret |-> FALSE]
    ELSE Bind(_parse_path(StripSlash(path)), LAMBDA pp :
           FileExistsIn(w, _get_bucket(w, pp[1], FALSE), pp[1], pp[2]))

\* dir_exists(path): [w, exc, ret]
dir_exists(w, path) ==
    IF StripSlash(path) = <<>> THEN [w |-> w, exc |-> "none", ret |-> TRUE]
    ELSE Bind(_fetch(w, WithSlash(StripSlash(path)), FALSE), LAMBDA f :
           [w |-> f.w, exc |-> f.exc,
            ret |-> IF f.exc = "none" THEN f.exists ELSE FALSE])

-----------------------------------------------------------------------------
(* Content: text is a sequence of code points, stored data a sequence of   *)
(* bytes.  A notebook document stands for its own JSON text: nbformat's    *)
(* from_dict, writes and reads are collaborators that round-trip it.       *)

\* The code points str.encode("utf8") encodes; of a surrogate it raises
\* UnicodeEncodeError.
Encodable(s) == \A i \in 1..Len(s) : s[i] < 55296 \/ s[i] > 57343

\* The UTF-8 bytes of one code point.
Utf8Bytes(c) ==
    IF c < 128 THEN <<c>>
    ELSE IF c < 2048 THEN <<192 + (c \div 64), 128 + (c % 64)>>
    ELSE IF c < 65536
    THEN <<224 + (c \div 4096), 128 + ((c \div 64) % 64), 128 + (c % 64)>>
    ELSE <<240 + (c \div 262144), 128 + ((c \div 4096) % 64),
           128 + ((c \div 64) % 64), 128 + (c % 64)>>

\* str.encode("utf8") of a str that is Encodable
RECURSIVE utf8_encode(_)
utf8_encode(s) ==
    IF s = <<>> THEN <<>>
    ELSE Utf8Bytes(s[1]) \o utf8_encode(Tail(s))

Decoded(cp, r) == [ok |-> r.ok, text |-> <<cp>> \o r.text]

\* A continuation byte of UTF-8 at position i of bs, between lo and hi.
Continues(bs, i, lo, hi) == i <= Len(bs) /\ bs[i] >= lo /\ bs[i] <= hi

\* bytes.decode("utf8"): [ok, text]; ok is FALSE where Python raises
\* UnicodeError: a byte that starts no sequence (128-193, 245-255), a
\* sequence cut short, an overlong form, a surrogate, a code point above
\* 0x10FFFF.
RECURSIVE utf8_decode(_)
utf8_decode(bs) ==
    IF bs = <<>> THEN [ok |-> TRUE, text |-> <<>>]
    ELSE IF bs[1] < 128 THEN Decoded(bs[1], utf8_decode(Tail(bs)))
    ELSE IF /\ bs[1] >= 194 /\ bs[1] < 224
            /\ Continues(bs, 2, 128, 191)
    THEN Decoded((bs[1] - 192) * 64 + (bs[2] - 128),
                 utf8_decode(SubSeq(bs, 3, Len(bs))))
    ELSE IF /\ bs[1] >= 224 /\ bs[1] < 240
            /\ Continues(bs, 2, IF bs[1] = 224 THEN 160 ELSE 128,
                          IF bs[1] = 237 THEN 159 ELSE 191)
            /\ Continues(bs, 3, 128, 191)
    THEN Decoded((bs[1] - 224) * 4096 + (bs[2] - 128) * 64 + (bs[3] - 128),
                 utf8_decode(SubSeq(bs, 4, Len(bs))))
    ELSE IF /\ bs[1] >= 240 /\ bs[1] < 245
            /\ Continues(bs, 2, IF bs[1] = 240 THEN 144 ELSE 128,
                          IF bs[1] = 244 THEN 143 ELSE 191)
            /\ Continues(bs, 3, 128, 191)
            /\ Continues(bs, 4, 128, 191)
    THEN Decoded((bs[1] - 240) * 262144 + (bs[2] - 128) * 4096
                    + (bs[3] - 128) * 64 + (bs[4] - 128),
                 utf8_decode(SubSeq(bs, 5, Len(bs))))
    ELSE [ok |-> FALSE, text |-> <<>>]

\* str.encode("ascii"): [ok, data]; ok is FALSE where Python raises
\* UnicodeEncodeError.
ascii_encode(s) == [ok |-> \A i \in 1..Len(s) : s[i] < 128, data |-> s]

\* The base64 alphabet: the character of a 6-bit value, and the value of a
\* character (-1 for a character outside the alphabet).
B64Char(v) ==
    IF v < 26 THEN 65 + v
    ELSE IF v < 52 THEN 97 + (v - 26)
    ELSE IF v < 62 THEN 48 + (v - 52)
    ELSE IF v = 62 THEN 43 ELSE 47

B64Value(c) ==
    IF c >= 65 /\ c <= 90 THEN c - 65
    ELSE IF c >= 97 /\ c <= 122 THEN c - 97 + 26
    ELSE IF c >= 48 /\ c <= 57 THEN c - 48 + 52
    ELSE IF c = 43 THEN 62
    ELSE IF c = 47 THEN 63 ELSE -1

\* binascii.b2a_base64 without its newline: three bytes become four
\* characters, the last group is padded with "=".
RECURSIVE b2a_base64(_)
b2a_base64(bs) ==
    IF bs = <<>> THEN <<>>
    ELSE IF Len(bs) = 1
    THEN <<B64Char(bs[1] \div 4), B64Char((bs[1] % 4) * 16), 61, 61>>
    ELSE IF Len(bs) = 2
    THEN <<B64Char(bs[1] \div 4),
           B64Char((bs[1] % 4) * 16 + bs[2] \div 16),
           B64Char((bs[2] % 16) * 4), 61>>
    ELSE <<B64Char(bs[1] \div 4),
           B64Char((bs[1] % 4) * 16 + bs[2] \div 16),
           B64Char((bs[2] % 16) * 4 + bs[3] \div 64),
           B64Char(bs[3] % 64)>>
         \o b2a_base64(SubSeq(bs, 4, Len(bs)))

\* base64.encodebytes: each piece of 57 bytes becomes a line that ends in
\* a newline; no bytes, no line.
RECURSIVE encodebytes(_)
encodebytes(bs) ==
    IF bs = <<>> THEN <<>>
    ELSE IF Len(bs) <= 57 THEN b2a_base64(bs) \o <<10>>
    ELSE b2a_base64(SubSeq(bs, 1, 57)) \o <<10>>
         \o encodebytes(SubSeq(bs, 58, Len(bs)))

\* binascii.a2b_base64, character by character: [ok, data].  Characters
\* outside the alphabet are skipped, a complete pad sequence ends the
\* input, and characters left in an open group are an error.
RECURSIVE a2b_base64(_, _, _, _, _)
a2b_base64(s, quad_pos, leftchar, pads, out) ==
    IF s = <<>> THEN [ok |-> quad_pos = 0, data |-> out]
    ELSE IF s[1] = 61
    THEN IF quad_pos >= 2 /\ quad_pos + pads + 1 >= 4
         THEN [ok |-> TRUE, data |-> out]
         ELSE a2b_base64(Tail(s), quad_pos, leftchar,
                         IF quad_pos >= 2 THEN pads + 1 ELSE pads, out)
    ELSE IF B64Value(s[1]) < 0
    THEN a2b_base64(Tail(s), quad_pos, leftchar, pads, out)
    ELSE IF quad_pos = 0
    THEN a2b_base64(Tail(s), 1, B64Value(s[1]), 0, out)
    ELSE IF quad_pos = 1
    THEN a2b_base64(Tail(s), 2, B64Value(s[1]) % 16, 0,
                    Append(out, leftchar * 4 + B64Value(s[1]) \div 16))
    ELSE IF quad_pos = 2
    THEN a2b_base64(Tail(s), 3, B64Value(s[1]) % 4, 0,
                    Append(out, leftchar * 16 + B64Value(s[1]) \div 4))
    ELSE a2b_base64(Tail(s), 0, 0, 0,
                    Append(out, leftchar * 64 + B64Value(s[1])))

\* base64.decodebytes: [ok, data]
decodebytes(bs) == a2b_base64(bs, 0, 0, 0, <<>>)

\* Lines 651-660 of _save_file: the bytes of the content, [ok, data]; ok is
\* FALSE where the code raises the 400 of line 658.
Bytes(content, format) ==
    IF format = "text"
    THEN IF Encodable(content.text)
         THEN [ok |-> TRUE, data |-> utf8_encode(content.text)]
         ELSE [ok |-> FALSE, data |-> <<>>]
    ELSE IF ~ascii_encode(content.text).ok THEN [ok |-> FALSE, data |-> <<>>]
    ELSE decodebytes(ascii_encode(content.text).data)

DirType == "application/x-directory"
NbType == "application/x-ipynb+json"
\* the default content_type of Blob.upload_from_string
PlainType == "text/plain"

IPYNB == <<Dot, "ipynb">>

\* ContentsManager.should_list(name): fnmatch finds the name to match none
\* of hide_globs.  Of its defaults ("__pycache__", "*.pyc", "*.pyo",
\* ".DS_Store", "*.so", "*.dylib", "*~") the strings of the model can match
\* "__pycache__", which only the whole string matches, and "*~", whose "*"
\* matches any characters, "/" too.
should_list(name) ==
    ~(name = <<"__pycache__">> \/ (Len(name) > 0 /\ name[Len(name)] = "~"))

-----------------------------------------------------------------------------
(* JupyterGoogleStorageContentManager: models and get. *)

\* is_hidden(path): [w, exc, ret]
is_hidden(w, path) ==
    IF path = <<>> THEN [w |-> w, exc |-> "none", ret |-> FALSE]
    ELSE Bind(_get_bucket(w, _parse_path(path)[1], FALSE), LAMBDA gb :
           [w |-> gb.w, exc |-> "none",
            ret |-> gb.exc = "Forbidden" \/ gb.bucket = None])

\* blob.download_as_string() (lines 524 and 570), a round trip: NotFound
\* when the blob is no longer there.  The bytes are blob.data.  [w, exc]
download_as_string(w, blob) ==
    Bind(RoundTrip(w), LAMBDA w1 :
      IF ~blob_exists(w1, blob.bucket, blob.name) THEN Raise(w1, "NotFound")
      ELSE Ok(w1))

\* _base_model(blob), with the type its caller sets
_base_model(blob, type) ==
    [type |-> type, name |-> _get_blob_name(blob),
     path |-> _get_blob_path(blob), last_modified |-> blob.updated,
     content |-> None, format |-> "None", mimetype |-> blob.content_type,
     writable |-> TRUE]

\* Read without the fall back to base64 when no format is asked for.
ReadWithoutFallback(d, data, format) ==
    IF format \in {"None", "text"}
    THEN IF d.ok
         THEN [exc |-> "none", content |-> [kind |-> "text", text |-> d.text],
               format |-> "text"]
         ELSE [exc |-> "HTTP400"]
    ELSE [exc |-> "none",
          content |-> [kind |-> "text", text |-> encodebytes(data)],
          format |-> "base64"]

\* Lines 526-538 of _read_file: what is made of the bytes, d their decoding.
Read(d, data, format) ==
    IF format \in {"None", "text"} /\ d.ok
    THEN [exc |-> "none", content |-> [kind |-> "text", text |-> d.text],
          format |-> "text"]
    ELSE IF format = "text" THEN [exc |-> "HTTP400"]
    ELSE [exc |-> "none",
          content |-> [kind |-> "text", text |-> encodebytes(data)],
          format |-> "base64"]

\* _read_file(blob, format): [exc, content, format]; content is a str, as
\* Python has it: [kind |-> "text", text |-> its code points].
_read_file(blob, format) == Read(utf8_decode(blob.data), blob.data, format)

\* _file_model(blob, content, format): [exc, model]
_file_model(blob, content, format) ==
    IF ~content THEN [exc |-> "none", model |-> _base_model(blob, "file")]
    ELSE Bind(_read_file(blob, format), LAMBDA r :
           IF r.exc # "none" THEN [exc |-> r.exc]
           ELSE [exc |-> "none",
                 model |-> [_base_model(blob, "file") EXCEPT
                               !.content = r.content, !.format = r.format]])

\* json.loads(s), which nbformat.reads starts with: the grammar of JSON as
\* Python's decoder takes it, over the code points of s.  Each operator
\* gives the position after what it read at position i, 0 when there is
\* nothing of the kind there.
JsonDigit(s, i) == i <= Len(s) /\ s[i] >= 48 /\ s[i] <= 57

RECURSIVE JsonWs(_, _)
JsonWs(s, i) ==
    IF i <= Len(s) /\ s[i] \in {32, 9, 10, 13} THEN JsonWs(s, i + 1) ELSE i

RECURSIVE JsonDigits(_, _)
JsonDigits(s, i) == IF JsonDigit(s, i) THEN JsonDigits(s, i + 1) ELSE i

\* the word w (code points) at position i
JsonWord(s, i, w) ==
    IF i + Len(w) - 1 <= Len(s) /\ SubSeq(s, i, i + Len(w) - 1) = w
    THEN i + Len(w) ELSE 0

JsonHex(s, i) ==
    i <= Len(s) /\ (\/ JsonDigit(s, i)
                    \/ (s[i] >= 65 /\ s[i] <= 70)
                    \/ (s[i] >= 97 /\ s[i] <= 102))

\* the characters of a string after its opening quote, up to and including
\* the closing one; a control character, a lone backslash and a bad escape
\* end it in failure
RECURSIVE JsonChars(_, _)
JsonChars(s, i) ==
    IF i > Len(s) \/ s[i] < 32 THEN 0
    ELSE IF s[i] = 34 THEN i + 1
    ELSE IF s[i] # 92 THEN JsonChars(s, i + 1)
    ELSE IF i + 1 > Len(s) THEN 0
    ELSE IF s[i + 1] \in {34, 92, 47, 98, 102, 110, 114, 116}
    THEN JsonChars(s, i + 2)
    ELSE IF /\ s[i + 1] = 117
            /\ \A j \in (i + 2)..(i + 5) : JsonHex(s, j)
    THEN JsonChars(s, i + 6)
    ELSE 0

\* the exponent of a number, if there is one, from position i
JsonExponent(s, i) ==
    IF i <= Len(s) /\ s[i] \in {69, 101}
    THEN Bind(IF i + 1 <= Len(s) /\ s[i + 1] \in {43, 45} THEN i + 2
              ELSE i + 1,
              LAMBDA j : IF JsonDigit(s, j) THEN JsonDigits(s, j) ELSE i)
    ELSE i

\* the fraction of a number, if there is one, and the exponent after it
JsonFraction(s, i) ==
    IF i <= Len(s) /\ s[i] = 46 /\ JsonDigit(s, i + 1)
    THEN JsonExponent(s, JsonDigits(s, i + 1))
    ELSE JsonExponent(s, i)

\* a number without its sign: 0 or digits that do not start with 0
JsonNumber(s, i) ==
    IF ~JsonDigit(s, i) THEN 0
    ELSE IF s[i] = 48 THEN JsonFraction(s, i + 1)
    ELSE JsonFraction(s, JsonDigits(s, i))

RECURSIVE JsonValue(_, _), JsonMembers(_, _), JsonElements(_, _)
JsonValue(s, i) ==
    IF i > Len(s) THEN 0
    ELSE IF s[i] = 34 THEN JsonChars(s, i + 1)
    ELSE IF s[i] = 123
    THEN Bind(JsonWs(s, i + 1), LAMBDA j :
           IF j <= Len(s) /\ s[j] = 125 THEN j + 1 ELSE JsonMembers(s, j))
    ELSE IF s[i] = 91
    THEN Bind(JsonWs(s, i + 1), LAMBDA j :
           IF j <= Len(s) /\ s[j] = 93 THEN j + 1 ELSE JsonElements(s, j))
    ELSE IF s[i] = 45
    THEN IF JsonNumber(s, i + 1) # 0 THEN JsonNumber(s, i + 1)
         ELSE JsonWord(s, i + 1, <<73, 110, 102, 105, 110, 105, 116, 121>>)
    ELSE IF JsonDigit(s, i) THEN JsonNumber(s, i)
    ELSE IF s[i] = 116 THEN JsonWord(s, i, <<116, 114, 117, 101>>)
    ELSE IF s[i] = 102 THEN JsonWord(s, i, <<102, 97, 108, 115, 101>>)
    ELSE IF s[i] = 110 THEN JsonWord(s, i, <<110, 117, 108, 108>>)
    ELSE IF s[i] = 78 THEN JsonWord(s, i, <<78, 97, 78>>)
    ELSE IF s[i] = 73
    THEN JsonWord(s, i, <<73, 110, 102, 105, 110, 105, 116, 121>>)
    ELSE 0

\* "name": value, then "," and more of them or "}"
JsonMembers(s, i) ==
    IF i > Len(s) \/ s[i] # 34 THEN 0
    ELSE Bind(JsonChars(s, i + 1), LAMBDA k :
      IF k = 0 THEN 0
      ELSE Bind(JsonWs(s, k), LAMBDA c :
        IF c > Len(s) \/ s[c] # 58 THEN 0
        ELSE Bind(JsonValue(s, JsonWs(s, c + 1)), LAMBDA v :
          IF v = 0 THEN 0
          ELSE Bind(JsonWs(s, v), LAMBDA e :
            IF e > Len(s) THEN 0
            ELSE IF s[e] = 125 THEN e + 1
            ELSE IF s[e] = 44 THEN JsonMembers(s, JsonWs(s, e + 1))
            ELSE 0))))

\* value, then "," and more of them or "]"
JsonElements(s, i) ==
    Bind(JsonValue(s, i), LAMBDA v :
      IF v = 0 THEN 0
      ELSE Bind(JsonWs(s, v), LAMBDA e :
        IF e > Len(s) THEN 0
        ELSE IF s[e] = 93 THEN e + 1
        ELSE IF s[e] = 44 THEN JsonElements(s, JsonWs(s, e + 1))
        ELSE 0))

\* json.loads(s) returns: one value, white space around it, nothing else.
IsJson(s) ==
    Bind(JsonValue(s, JsonWs(s, 1)), LAMBDA v :
      v # 0 /\ JsonWs(s, v) = Len(s) + 1)

\* _read_notebook(blob): [exc, nb].  The bytes are decoded (line 570) and
\* nbformat.reads parses the text (line 571): JSONDecodeError, which
\* nbformat raises on as NotJSONError, when it is no JSON.  What nbformat
\* makes of JSON is a document that stands for its text.
_read_notebook(blob) ==
    Bind(utf8_decode(blob.data), LAMBDA d :
      IF ~d.ok THEN [exc |-> "UnicodeDecodeError"]
      ELSE IF ~IsJson(d.text) THEN [exc |-> "JSONDecodeError"]
      ELSE [exc |-> "none", nb |-> [kind |-> "nb", doc |-> d.text]])

\* _notebook_model(blob, content): [exc, model]
_notebook_model(blob, content) ==
    IF ~content THEN [exc |-> "none", model |-> _base_model(blob, "notebook")]
    ELSE Bind(_read_notebook(blob), LAMBDA r :
           IF r.exc # "none" THEN [exc |-> r.exc]
           ELSE [exc |-> "none",
                 model |-> [_base_model(blob, "notebook") EXCEPT
                               !.content = r.nb, !.format = "json"]])

\* The path argument of get is a str or a Blob.
Str(path) == [isblob |-> FALSE, path |-> path]
Obj(blob) == [isblob |-> TRUE, blob |-> blob]

RECURSIVE get(_, _, _, _, _), _dir_model(_, _, _, _), DirEntries(_, _, _, _)

\* The two loops of _dir_model (lines 610-627): get(content=False) of each
\* argument in turn; [w, exc, models].
DirEntries(w, args, i, acc) ==
    IF i > Len(args) THEN [w |-> w, exc |-> "none", models |-> acc]
    ELSE Bind(get(w, args[i], FALSE, "None", "None"), LAMBDA g :
           IF g.exc # "none" THEN Raise(g.w, g.exc)
           ELSE DirEntries(g.w, args, i + 1, Append(acc, g.model)))

\* The model _dir_model starts from (lines 595-606).  writable is a bool, or
\* the str "" when the path is "" (what `path and ...` is then).
DirModel(path, writable) ==
    [type |-> "directory", name |-> _get_dir_name(path), path |-> path,
     last_modified |-> "", content |-> None, format |-> "None",
     mimetype |-> DirType, writable |-> writable]

\* The arguments of the calls of get at lines 613 and 624, in their order.
DirArgs(path, listed, shown) ==
    [i \in 1..Len(listed) |-> Obj(listed[i])]
    \o [i \in 1..Len(shown) |->
           Str(IF path # <<>>
               THEN _parse_path(path)[1] \o <<Slash>> \o shown[i] \o <<Slash>>
               ELSE shown[i])]

\* _dir_model(path, members, content): [w, exc, model]
_dir_model(w, path, members, content) ==
    Bind(IF path # <<>> /\ members = None THEN is_hidden(w, path)
         ELSE [w |-> w, exc |-> "none", ret |-> FALSE],
         LAMBDA h :
      IF ~content
      THEN [w |-> h.w, exc |-> "none",
            model |-> DirModel(path,
                         IF path = <<>> THEN path
                         ELSE members # None \/ ~h.ret)]
      \* line 608 unpacks members: of None, a TypeError
      ELSE IF members = None THEN Raise(h.w, "TypeError")
      ELSE Bind(DirEntries(h.w,
                  DirArgs(path,
                      SelectSeq(members.files, LAMBDA blob :
                          /\ _get_blob_path(blob) # path
                          /\ should_list(_get_blob_name(blob))),
                      SelectSeq(members.folders, LAMBDA folder :
                          /\ should_list(folder)
                          /\ folder # _parse_path(path)[2])),
                  1, <<>>),
                LAMBDA e :
             IF e.exc # "none" THEN Raise(e.w, e.exc)
             ELSE [w |-> e.w, exc |-> "none",
                   model |-> [DirModel(path,
                                       IF path = <<>> THEN path ELSE TRUE)
                              EXCEPT
                                 !.content = e.models, !.format = "json"]]))

\* Lines 251-260 of get: the directory branch.
GetDirectoryModel(w, path, content, type) ==
    IF type \notin {"None", "directory"} THEN Raise(w, "HTTP400")
    ELSE Bind(IF Contains(path, Slash) THEN WithSlash(path) ELSE path,
              LAMBDA p :
         Bind(_fetch(w, p, content), LAMBDA f :
           IF f.exc # "none" THEN Raise(f.w, f.exc)
           ELSE IF ~f.exists THEN Raise(f.w, "HTTP404")
           ELSE _dir_model(f.w, p, f.payload, content)))

\* Lines 262-268 of get: the file branch.
GetFileModel(w, path, content, type, format) ==
    Bind(_fetch(w, path, TRUE), LAMBDA f :
      IF f.exc # "none" THEN Raise(f.w, f.exc)
      ELSE IF ~f.exists THEN Raise(f.w, "HTTP404")
      \* _base_model reads blob.updated: of None, an AttributeError
      ELSE IF f.payload = None THEN Raise(f.w, "AttributeError")
      ELSE Bind(IF content THEN download_as_string(f.w, f.payload)
                ELSE Ok(f.w),
                LAMBDA d :
           IF d.exc # "none" THEN Raise(d.w, d.exc)
           ELSE Bind(IF \/ type = "notebook"
                        \/ (type = "None" /\ EndsWith(path, IPYNB))
                     THEN _notebook_model(f.payload, content)
                     ELSE _file_model(f.payload, content, format),
                     LAMBDA m :
                  IF m.exc # "none" THEN Raise(d.w, m.exc)
                  ELSE [w |-> d.w, exc |-> "none", model |-> m.model])))

GetPath(w, path, content, type, format) ==
    IF \/ ~Contains(path, Slash)
       \/ path[Len(path)] = Slash
       \/ type = "directory"
    THEN GetDirectoryModel(w, path, content, type)
    ELSE GetFileModel(w, path, content, type, format)

\* get(path, content, type, format): [w, exc, model]
get(w, arg, content, type, format) ==
    GetPath(w,
            IF arg.isblob THEN _get_blob_path(arg.blob)
            ELSE StripSlash(arg.path),
            content, type, format)

-----------------------------------------------------------------------------
(* JupyterGoogleStorageContentManager: the writers. *)

HTTPErrors == {"HTTP0", "HTTP400", "HTTP403", "HTTP404", "HTTP500"}

\* Blob.upload_from_string of a blob of the bucket: [w, exc, blob]
Uploaded(w, bucket_name, bucket_path, data, ctype) ==
    Bind(upload(w, bucket_name, bucket_path, data, ctype), LAMBDA u :
      IF u.exc # "none" THEN Raise(u.w, u.exc)
      ELSE [w |-> u.w, exc |-> "none",
            blob |-> BlobOf(u.w, bucket_name, bucket_path)])

\* _save_notebook(path, nb): [w, exc, blob]
_save_notebook(w, path, nb) ==
    Bind(_parse_path(path), LAMBDA pp :
    Bind(_get_bucket(w, pp[1], TRUE), LAMBDA gb :
      IF gb.exc # "none" THEN Raise(gb.w, gb.exc)
      ELSE Uploaded(gb.w, pp[1], pp[2], utf8_encode(nb.doc), NbType)))

\* _save_file(path, content, format): [w, exc, blob]
_save_file(w, path, content, format) ==
    Bind(_parse_path(path), LAMBDA pp :
    Bind(_get_bucket(w, pp[1], TRUE), LAMBDA gb :
      IF gb.exc # "none" THEN Raise(gb.w, gb.exc)
      ELSE IF format \notin {"text", "base64"} THEN Raise(gb.w, "HTTP400")
      ELSE IF ~Bytes(content, format).ok THEN Raise(gb.w, "HTTP400")
      ELSE Uploaded(gb.w, pp[1], pp[2], Bytes(content, format).data,
                    PlainType)))

\* Lines 674-680 of _save_directory: the bucket or the marker is created.
MakeDirectory(w, bucket_name, bucket_path) ==
    IF bucket_path = <<>>
    \* client.create_bucket(bucket_name)
    THEN Bind(RoundTrip(w), LAMBDA w1 :
           Ok([w1 EXCEPT !.buckets = @ \cup {bucket_name}]))
    ELSE Bind(_get_bucket(w, bucket_name, TRUE), LAMBDA gb :
           IF gb.exc # "none" THEN Raise(gb.w, gb.exc)
           ELSE upload(gb.w, bucket_name, Append(bucket_path, Slash),
                       <<>>, DirType))

\* _save_directory without the look at what exists.
SaveDirectoryUnchecked(w, path, model) ==
    MakeDirectory(w, _parse_path(path)[1], _parse_path(path)[2])

\* _save_directory(path, model): [w, exc]
_save_directory(w, path, model) ==
    Bind(_fetch(w, path, TRUE), LAMBDA f :
      IF f.exc # "none" THEN Raise(f.w, f.exc)
      ELSE IF f.exists
      THEN IF f.payload.kind = "blob" THEN Raise(f.w, "HTTP400")
           ELSE Ok(f.w)
      ELSE MakeDirectory(f.w, _parse_path(path)[1], _parse_path(path)[2]))

-----------------------------------------------------------------------------
(* GoogleStorageCheckpoints. *)

checkpoint_dir == <<Dot, "ipynb", "_checkpoints">>
\* the checkpoint_bucket trait; empty: checkpoints stay in the file's bucket
checkpoint_bucket == <<>>

\* Lines 141-148 of _get_checkpoint_path: the path is put together.
CheckpointPath(checkpoint_id, bucket_name, dir, ne) ==
    bucket_name \o <<Slash>> \o dir \o checkpoint_dir \o <<Slash>> \o ne[1]
    \o (IF checkpoint_id # "None" THEN <<Dash, checkpoint_id>> \o ne[2]
        ELSE <<>>)

CheckpointIn(checkpoint_id, bucket_name, bucket_path, slash) ==
    CheckpointPath(checkpoint_id,
        IF checkpoint_bucket # <<>> THEN checkpoint_bucket ELSE bucket_name,
        SubSeq(bucket_path, 1, slash),
        splitext(SubSeq(bucket_path, slash + 1, Len(bucket_path))))

\* _get_checkpoint_path(checkpoint_id, path); checkpoint_id "None" is None.
_get_checkpoint_path(checkpoint_id, path) ==
    Bind(_parse_path(StripSlash(path)), LAMBDA pp :
      CheckpointIn(checkpoint_id, pp[1], pp[2], RFind(pp[2], Slash)))

\* Blob.path: "/b/<bucket>/o/" + quote(name, safe="")
blob_path(blob) ==
    <<Slash, "b", Slash>> \o blob.bucket \o <<Slash, "o", Slash>>
    \o [i \in 1..Len(blob.name) |->
           IF blob.name[i] = Slash THEN Quoted ELSE blob.name[i]]

\* The number of characters of a token, and of a string.
Width(t) ==
    IF t \in Uuids THEN 36
    ELSE IF t = "__pycache__" THEN 11
    ELSE IF t = "_checkpoints" THEN 12
    ELSE IF t = "ipynb" THEN 5
    ELSE IF t = Quoted THEN 3
    ELSE 1

RECURSIVE Chars(_)
Chars(s) == IF s = <<>> THEN 0 ELSE Width(s[1]) + Chars(Tail(s))

\* s[-36:], the last 36 characters of s, or s when it has no more: the
\* tokens `text` without the first `cut` characters of the first of them.
RECURSIVE Last36(_)
Last36(s) ==
    IF s # <<>> /\ Chars(Tail(s)) >= 36 THEN Last36(Tail(s))
    ELSE [cut |-> IF Chars(s) > 36 THEN Chars(s) - 36 ELSE 0, text |-> s]

\* list.sort(key=last_modified, reverse=True): the sort is stable, so
\* entries of equal time keep their order.
RECURSIVE SortByLastModified(_)
SortByLastModified(cs) ==
    IF cs = <<>> THEN <<>>
    ELSE Bind(CHOOSE i \in 1..Len(cs) :
                 /\ \A j \in 1..Len(cs) :
                        cs[j].last_modified <= cs[i].last_modified
                 /\ \A j \in 1..(i - 1) :
                        cs[j].last_modified < cs[i].last_modified,
              LAMBDA i :
                <<cs[i]>> \o SortByLastModified(
                    SubSeq(cs, 1, i - 1) \o SubSeq(cs, i + 1, Len(cs))))

\* Lines 125-128 of list_checkpoints: one entry for each listed blob.
CheckpointEntries(files) ==
    [i \in 1..Len(files) |->
        [id |-> Last36(splitext(blob_path(files[i]))[1]),
         last_modified |-> files[i].updated]]

\* list_checkpoints(path): [w, exc, ret]
list_checkpoints(w, path) ==
    Bind(_parse_path(_get_checkpoint_path("None", path)), LAMBDA pp :
    Bind(_get_bucket(w, pp[1], FALSE), LAMBDA gb :
      IF gb.exc = "Forbidden"
      THEN [w |-> gb.w, exc |-> "Forbidden", ret |-> <<>>]
      \* bucket is None: None.list_blobs raises AttributeError
      ELSE IF gb.bucket = None
      THEN [w |-> gb.w, exc |-> "AttributeError", ret |-> <<>>]
      ELSE Bind(RoundTrip(gb.w), LAMBDA w1 :
           Bind(list_blobs(w1, pp[1], pp[2]), LAMBDA it :
             IF it.exc = "NotFound"
             THEN [w |-> w1, exc |-> "none", ret |-> <<>>]
             ELSE [w |-> w1, exc |-> "none",
                   ret |-> SortByLastModified(
                               CheckpointEntries(it.files))]))))

\* uuid.uuid4(): uid, which the caller draws among the ids not drawn before.
uuid4(w, uid) == [w EXCEPT !.created = Append(@, uid)]

\* What the two creators return (lines 42-45 and 57-60).
CheckpointModel(s, uid) ==
    IF s.exc # "none" THEN Raise(s.w, s.exc)
    ELSE [w |-> s.w, exc |-> "none",
          ret |-> [id |-> <<uid>>, last_modified |-> s.blob.updated]]

\* create_notebook_checkpoint(nb, path): [w, exc, ret]
create_notebook_checkpoint(w, nb, path, uid) ==
    CheckpointModel(
        _save_notebook(uuid4(w, uid), _get_checkpoint_path(uid, path), nb),
        uid)

\* create_file_checkpoint(content, format, path): [w, exc, ret]
create_file_checkpoint(w, content, format, path, uid) ==
    CheckpointModel(
        _save_file(uuid4(w, uid), _get_checkpoint_path(uid, path), content,
                   format),
        uid)

\* ContentsManager.create_checkpoint(path), which GenericCheckpointsMixin
\* turns into get(path, content=True) and one of the two creators above.
create_checkpoint(w, path, uid) ==
    Bind(get(w, Str(path), TRUE, "None", "None"), LAMBDA g :
      IF g.exc # "none" THEN Raise(g.w, g.exc)
      ELSE IF g.model.type = "notebook"
      THEN create_notebook_checkpoint(g.w, g.model.content, path, uid)
      ELSE IF g.model.type = "file"
      THEN create_file_checkpoint(g.w, g.model.content, g.model.format,
                                  path, uid)
      ELSE Raise(g.w, "HTTP500"))

-----------------------------------------------------------------------------
(* JupyterGoogleStorageContentManager: save, delete_file, rename_file. *)

HasKey(model, k) == k \in DOMAIN model

\* Lines 290-296 of save: the notebook is written and gets a checkpoint
\* when list_checkpoints returns none.
SaveNotebookAndCheckpoint(w, model, path, uid) ==
    Bind(_save_notebook(w, path, model.content), LAMBDA s :
      IF s.exc # "none" THEN Raise(s.w, s.exc)
      ELSE Bind(list_checkpoints(s.w, path), LAMBDA l :
             IF l.exc # "none" THEN Raise(l.w, l.exc)
             ELSE IF l.ret = <<>>
             THEN Bind(create_checkpoint(l.w, path, uid), LAMBDA c :
                    Raise(c.w, c.exc))
             ELSE Ok(l.w)))

\* Lines 305-311 of save: an HTTPError passes, anything else becomes a 500.
Reraise(r) ==
    IF r.exc = "none" \/ r.exc \in HTTPErrors THEN Raise(r.w, r.exc)
    ELSE Raise(r.w, "HTTP500")

\* The dispatch of save (lines 289-311): [w, exc]
SaveDispatch(w, model, path, uid) ==
    Reraise(IF model.type = "notebook"
            THEN SaveNotebookAndCheckpoint(w, model, path, uid)
            ELSE IF model.type = "file"
            THEN _save_file(w, path, model.content,
                            IF HasKey(model, "format") THEN model.format
                            ELSE "None")
            ELSE IF model.type = "directory"
            THEN _save_directory(w, path, model)
            ELSE Raise(w, "HTTP0"))

\* ContentsManager.run_pre_save_hook(model, path): the hook, when one is
\* configured, is called with the model and the path.
run_pre_save_hook(w, model, path) ==
    IF w.hooks
    THEN [w EXCEPT !.hook_log = Append(@, [hook |-> "pre", path |-> path])]
    ELSE w

\* run_post_save_hook(model, os_path).  Line 405 evaluates the name `path`
\* for the hook's os_path argument; no such name is defined in the method
\* or the module, so Python raises NameError before the hook is called, and
\* lines 406-407 log it.
run_post_save_hook(w, model, os_path) ==
    IF w.hooks
    THEN [w EXCEPT !.hook_log =
                      Append(@, [hook |-> "error", path |-> os_path])]
    ELSE w

\* Lines 285-324 of save, the path parsed.
SaveAt(w, model, path, uid) ==
    Bind(SaveDispatch(run_pre_save_hook(w, model, path), model, path, uid),
         LAMBDA d :
      IF d.exc # "none" THEN Raise(d.w, d.exc)
      ELSE Bind(get(d.w, Str(path), FALSE, "None", "None"), LAMBDA g :
             IF g.exc # "none" THEN Raise(g.w, g.exc)
             ELSE [w |-> run_post_save_hook(g.w, g.model, path),
                   exc |-> "none", model |-> g.model]))

\* SaveParsed with the pre-save hook run before the check of line 280.
SaveParsedHookFirst(w, model, path, bucket_path, uid) ==
    IF bucket_path = <<>> /\ model.type # "directory"
    THEN Raise(run_pre_save_hook(w, model, path), "HTTP403")
    ELSE SaveAt(w, model,
                IF bucket_path # <<>> /\ model.type = "directory"
                THEN Append(path, Slash) ELSE path,
                uid)

\* Lines 279-285 of save: the checks of the parsed path.
SaveParsed(w, model, path, bucket_path, uid) ==
    IF bucket_path = <<>> /\ model.type # "directory" THEN Raise(w, "HTTP403")
    ELSE SaveAt(w, model,
                IF bucket_path # <<>> /\ model.type = "directory"
                THEN Append(path, Slash) ELSE path,
                uid)

\* save(model, path): [w, exc, model]
save(w, model, path, uid) ==
    IF ~HasKey(model, "type") THEN Raise(w, "HTTP400")
    ELSE IF ~HasKey(model, "content") /\ model.type # "directory"
    THEN Raise(w, "HTTP400")
    ELSE SaveParsed(w, model, StripSlash(path),
                    _parse_path(StripSlash(path))[2], uid)

RECURSIVE delete_file(_, _), DeleteFolders(_, _, _, _)

\* The loop of delete_file (lines 343-344): [w, exc]
DeleteFolders(w, path, folders, i) ==
    IF i > Len(folders) THEN Ok(w)
    ELSE Bind(delete_file(w, path \o folders[i]), LAMBDA d :
           IF d.exc # "none" THEN Raise(d.w, d.exc)
           ELSE DeleteFolders(d.w, path, folders, i + 1))

\* Bucket.delete(): the backend refuses a bucket that holds blobs.
bucket_delete(w, bucket_name) ==
    Bind(RoundTrip(w), LAMBDA w1 :
      IF bucket_name \notin w1.buckets THEN Raise(w1, "NotFound")
      ELSE IF BucketKeys(w1, bucket_name) # {} THEN Raise(w1, "Conflict")
      ELSE Ok([w1 EXCEPT !.buckets = @ \ {bucket_name}]))

\* DeleteIn with the entry of a deleted bucket left in the cache.
DeleteInKeepsEntry(w, path, bucket_name, bucket_path) ==
    IF bucket_path = <<>>
    THEN bucket_delete(w, bucket_name)
    ELSE Bind(RoundTrip(w), LAMBDA w1 :
         Bind(list_blobs(w1, bucket_name, bucket_path), LAMBDA it :
           IF it.exc # "none" THEN Raise(w1, it.exc)
           ELSE Bind(delete_blobs(w1, bucket_name, it.files, 1), LAMBDA d :
                  IF d.exc # "none" THEN Raise(d.w, d.exc)
                  ELSE DeleteFolders(
                           d.w, WithSlash(path),
                           SetOrder(d.w, {DropLast(f) : f \in it.prefixes}),
                           1))))

\* Lines 332-344 of delete_file, the bucket resolved.
DeleteIn(w, path, bucket_name, bucket_path) ==
    IF bucket_path = <<>>
    THEN Bind(bucket_delete(w, bucket_name), LAMBDA d :
           IF d.exc # "none" THEN Raise(d.w, d.exc)
           ELSE del_bucket_cache(d.w, bucket_name))
    ELSE Bind(RoundTrip(w), LAMBDA w1 :
         Bind(list_blobs(w1, bucket_name, bucket_path), LAMBDA it :
           IF it.exc # "none" THEN Raise(w1, it.exc)
           ELSE Bind(delete_blobs(w1, bucket_name, it.files, 1), LAMBDA d :
                  IF d.exc # "none" THEN Raise(d.w, d.exc)
                  ELSE DeleteFolders(
                           d.w, WithSlash(path),
                           SetOrder(d.w, {DropLast(f) : f \in it.prefixes}),
                           1))))

\* delete_file(path): [w, exc]
delete_file(w, path) ==
    Bind(_parse_path(StripSlash(path)), LAMBDA pp :
    Bind(_get_bucket(w, pp[1], TRUE), LAMBDA gb :
      IF gb.exc # "none" THEN Raise(gb.w, gb.exc)
      ELSE DeleteIn(gb.w, StripSlash(path), pp[1], pp[2])))

\* delete_checkpoint(checkpoint_id, path): [w, exc]
delete_checkpoint(w, checkpoint_id, path) ==
    delete_file(w, _get_checkpoint_path(checkpoint_id, path))

\* rename_file with the objects of the old path deleted before line 356.
RenameDeletingFirst(w, old_path, new_path) ==
    Bind(_get_bucket(w, _parse_path(StripSlash(old_path))[1], TRUE),
         LAMBDA old_bucket :
      IF old_bucket.exc # "none" THEN Raise(old_bucket.w, old_bucket.exc)
      ELSE Bind(_get_bucket(old_bucket.w,
                            _parse_path(StripSlash(new_path))[1], TRUE),
                LAMBDA new_bucket :
             IF new_bucket.exc # "none"
             THEN Raise(new_bucket.w, new_bucket.exc)
             ELSE Raise([new_bucket.w EXCEPT !.blobs =
                           [x \in {y \in DOMAIN new_bucket.w.blobs :
                                     ~(/\ y[1] = _parse_path(
                                                    StripSlash(old_path))[1]
                                       /\ StartsWith(y[2],
                                              _parse_path(
                                                  StripSlash(old_path))[2]))}
                              |-> new_bucket.w.blobs[x]]],
                        "TypeError")))

\* rename_file(old_path, new_path): [w, exc].  Line 356 calls
\* Bucket.get_blob(blob_name, client=None) without blob_name: Python raises
\* TypeError there, on every call that found both buckets, so lines 357-386
\* never run.
rename_file(w, old_path, new_path) ==
    Bind(_get_bucket(w, _parse_path(StripSlash(old_path))[1], TRUE),
         LAMBDA old_bucket :
      IF old_bucket.exc # "none" THEN Raise(old_bucket.w, old_bucket.exc)
      ELSE Bind(_get_bucket(old_bucket.w,
                            _parse_path(StripSlash(new_path))[1], TRUE),
                LAMBDA new_bucket :
             IF new_bucket.exc # "none"
             THEN Raise(new_bucket.w, new_bucket.exc)
             ELSE Raise(new_bucket.w, "TypeError")))

\* rename_checkpoint(checkpoint_id, old_path, new_path): [w, exc]
rename_checkpoint(w, checkpoint_id, old_path, new_path) ==
    rename_file(w, _get_checkpoint_path(checkpoint_id, old_path),
                _get_checkpoint_path(checkpoint_id, new_path))

\* Lines 72-76 and 95-99: the checkpoint's blob is fetched and downloaded.
\* [w, exc, blob]
FetchCheckpoint(w, checkpoint_id, path) ==
    Bind(_fetch(w, _get_checkpoint_path(checkpoint_id, path), TRUE),
         LAMBDA f :
      IF f.exc # "none" THEN Raise(f.w, f.exc)
      ELSE IF ~f.exists THEN Raise(f.w, "HTTP404")
      \* None.download_as_string raises AttributeError
      ELSE IF f.payload = None THEN Raise(f.w, "AttributeError")
      ELSE Bind(download_as_string(f.w, f.payload), LAMBDA d :
             IF d.exc # "none" THEN Raise(d.w, d.exc)
             ELSE [w |-> d.w, exc |-> "none", blob |-> f.payload]))

\* get_file_checkpoint(checkpoint_id, path): [w, exc, ret]
get_file_checkpoint(w, checkpoint_id, path) ==
    Bind(FetchCheckpoint(w, checkpoint_id, path), LAMBDA c :
      IF c.exc # "none" THEN [w |-> c.w, exc |-> c.exc, ret |-> None]
      ELSE Bind(_read_file(c.blob, "None"), LAMBDA r :
             IF r.exc # "none" THEN [w |-> c.w, exc |-> r.exc, ret |-> None]
             ELSE [w |-> c.w, exc |-> "none",
                   ret |-> [type |-> "file", content |-> r.content,
                            format |-> r.format]]))

\* get_notebook_checkpoint(checkpoint_id, path): [w, exc, ret]
get_notebook_checkpoint(w, checkpoint_id, path) ==
    Bind(FetchCheckpoint(w, checkpoint_id, path), LAMBDA c :
      IF c.exc # "none" THEN [w |-> c.w, exc |-> c.exc, ret |-> None]
      ELSE Bind(_read_notebook(c.blob), LAMBDA r :
             IF r.exc # "none" THEN [w |-> c.w, exc |-> r.exc, ret |-> None]
             ELSE [w |-> c.w, exc |-> "none",
                   ret |-> [type |-> "notebook", content |-> r.nb]]))

-----------------------------------------------------------------------------
(* The state machine: one action per operation of the manager. *)

World == [buckets |-> buckets, blobs |-> blobs, now |-> now,
          cache_buckets |-> cache_buckets, cache_set |-> cache_set,
          bucket_cache |-> bucket_cache, created |-> created,
          hooks |-> hooks, hook_log |-> hook_log,
          hashseed |-> 0, calls |-> 0, strike |-> NoStrike]

\* The directories of bucket b that a listing can be asked of: its root
\* and every prefix of an object's name that ends in "/".
Directories(w, b) ==
    {<<>>} \cup UNION {{SubSeq(k, 1, i) : i \in {j \in 1..Len(k) :
                                                   k[j] = Slash}} :
                       k \in BucketKeys(w, b)}

\* The numbers of prefixes that the listings of the world w return, and the
\* greatest of them.
Widths(w) ==
    UNION {{Cardinality(list_blobs(w, b, p).prefixes) :
              p \in Directories(w, b)} : b \in w.buckets}
Widest(w) ==
    IF Widths(w) = {} THEN 0
    ELSE CHOOSE n \in Widths(w) : \A m \in Widths(w) : m <= n

\* The hash seeds that order the prefixes of every listing of the state in
\* every way.
RECURSIVE Factorial(_)
Factorial(n) == IF n <= 1 THEN 1 ELSE n * Factorial(n - 1)
HashSeeds == 0..(Factorial(Widest(World)) - 1)

\* The state as the world of an operation that runs in a process of hash
\* seed `seed` while the other client of the backend does `strike`.
Amid(seed, strike) == [World EXCEPT !.hashseed = seed, !.strike = strike]

\* The world w becomes the state, within the bounds.
Becomes(w, clock) ==
    /\ w.now <= clock
    /\ Len(w.created) <= MaxIds
    /\ Len(w.hook_log) <= MaxHookLog
    /\ buckets' = w.buckets
    /\ blobs' = w.blobs
    /\ now' = w.now
    /\ cache_buckets' = w.cache_buckets
    /\ cache_set' = w.cache_set
    /\ bucket_cache' = w.bucket_cache
    /\ created' = w.created
    /\ hooks' = w.hooks
    /\ hook_log' = w.hook_log

Init ==
    /\ buckets = {}
    /\ blobs = [x \in {} |-> None]
    /\ now = 0
    /\ cache_buckets = TRUE
    /\ cache_set = FALSE
    /\ bucket_cache = {}
    /\ created = <<>>
    /\ hooks = FALSE
    /\ hook_log = <<>>
    /\ result = [op |-> "init"]

(* The requests the model sends. *)

B1 == <<"b", "1">>
B2 == <<"b", "2">>
D == B1 \o <<Slash, "d">>                    \* b1/d
DSlash == D \o <<Slash>>                     \* b1/d/
DS == D \o <<Slash, "s">>                    \* b1/d/s
DX == D \o <<Slash, "x">>                    \* b1/d/x
DH == D \o <<Slash, "h", "~">>               \* b1/d/h~, a hidden name
DSZ == DS \o <<Slash, "z">>                  \* b1/d/s/z
DP == D \o <<Slash, "__pycache__">>          \* b1/d/__pycache__
DPX == DP \o <<Slash, "x">>                  \* b1/d/__pycache__/x
F == B1 \o <<Slash, "f">>                    \* b1/f
E == B2 \o <<Slash, "e">>                    \* b2/e
N == B1 \o <<Slash, "n", Dot, "ipynb">>      \* b1/n.ipynb
N2 == B1 \o <<Slash, "n", "2", Dot, "ipynb">> \* b1/n2.ipynb

Text == [kind |-> "text", text |-> <<104>>]
Notebook == [kind |-> "nb", doc |-> <<123, 125>>]

DirectoryModel == [type |-> "directory"]
FileModel == [type |-> "file", content |-> Text, format |-> "text"]
NotebookModel == [type |-> "notebook", content |-> Notebook]

FreshIds == Uuids \ Range(created)

Save(models, paths, clock) ==
    \E model \in models, path \in paths :
      \E uid \in IF HasKey(model, "type") /\ model.type = "notebook"
                 THEN FreshIds ELSE {"None"} :
        LET r == save(World, model, path, uid)
        IN /\ Becomes(r.w, clock)
           /\ result' = [op |-> "save", model |-> model, path |-> path,
                         type |-> IF HasKey(model, "type") THEN model.type
                                  ELSE "None",
                         exc |-> r.exc]

DeleteFile(paths, clock) ==
    \E path \in paths :
        LET r == delete_file(World, path)
        IN /\ Becomes(r.w, clock)
           /\ result' = [op |-> "delete_file", path |-> path, exc |-> r.exc]

RenameFile(pairs, clock) ==
    \E pair \in pairs :
        LET r == rename_file(World, pair[1], pair[2])
        IN /\ Becomes(r.w, clock)
           /\ result' = [op |-> "rename_file", path |-> pair[1],
                         new_path |-> pair[2], exc |-> r.exc]

DirExists(paths, clock) ==
    \E path \in paths :
        LET r == dir_exists(World, path)
        IN /\ Becomes(r.w, clock)
           /\ result' = [op |-> "dir_exists", path |-> path, exc |-> r.exc,
                         ret |-> IF r.exc = "none" THEN r.ret ELSE FALSE]

Get(paths, clock) ==
    \E path \in paths, seed \in HashSeeds :
        LET r == get(Amid(seed, NoStrike), Str(path), TRUE, "None", "None")
        IN /\ Becomes(r.w, clock)
           /\ result' = [op |-> "get", path |-> path, exc |-> r.exc,
                         ret |-> IF r.exc = "none" THEN r.model ELSE None]

CreateCheckpoint(paths, clock) ==
    \E path \in paths, uid \in FreshIds :
        LET r == create_checkpoint(World, path, uid)
        IN /\ Becomes(r.w, clock)
           /\ result' = [op |-> "create_checkpoint", path |-> path,
                         exc |-> r.exc]

DeleteCheckpoint(paths, clock) ==
    \E path \in paths, id \in Range(created) :
        LET r == delete_checkpoint(World, id, path)
        IN /\ Becomes(r.w, clock)
           /\ result' = [op |-> "delete_checkpoint", path |-> path,
                         id |-> id, exc |-> r.exc]

ListCheckpoints(paths, clock) ==
    \E path \in paths :
        LET r == list_checkpoints(World, path)
        IN /\ Becomes(r.w, clock)
           /\ result' = [op |-> "list_checkpoints", path |-> path,
                         exc |-> r.exc,
                         ret |-> IF r.exc = "none" THEN r.ret ELSE <<>>]

GetFileCheckpoint(paths, clock) ==
    \E path \in paths, id \in Uuids :
        LET r == get_file_checkpoint(World, id, path)
        IN /\ Becomes(r.w, clock)
           /\ result' = [op |-> "get_file_checkpoint", path |-> path,
                         id |-> id, exc |-> r.exc, ret |-> r.ret]

GetNotebookCheckpoint(paths, clock) ==
    \E path \in paths, id \in Uuids :
        LET r == get_notebook_checkpoint(World, id, path)
        IN /\ Becomes(r.w, clock)
           /\ result' = [op |-> "get_notebook_checkpoint", path |-> path,
                         id |-> id, exc |-> r.exc, ret |-> r.ret]

RenameCheckpoint(pairs, clock) ==
    \E pair \in pairs, id \in Uuids :
        LET r == rename_checkpoint(World, id, pair[1], pair[2])
        IN /\ Becomes(r.w, clock)
           /\ result' = [op |-> "rename_checkpoint", path |-> pair[1],
                         new_path |-> pair[2], id |-> id, exc |-> r.exc]

(* Spec: directories and files in two buckets. *)

SaveDirectory == Save({DirectoryModel}, {B1, B2, D, F}, MaxClock)
SaveFile == Save({FileModel}, {F, DX, DH, DSZ, DPX}, MaxClock)
DeleteAny == DeleteFile({B2, D, DSlash}, MaxClock)
RenameAny ==
    RenameFile({<<DSlash, E \o <<Slash>>>>, <<D, B1 \o <<Slash, "e">>>>,
                <<F, B1 \o <<Slash, "g">>>>, <<F, B2 \o <<Slash, "f">>>>},
               MaxClock)
DirExistsAny == DirExists({B2, D}, MaxClock)
GetDirectory == Get({DSlash}, MaxClock)

Next ==
    \/ SaveDirectory
    \/ SaveFile
    \/ DeleteAny
    \/ RenameAny
    \/ DirExistsAny
    \/ GetDirectory

Spec == Init /\ [][Next]_vars

(* SpecCheckpoints: notebooks, a file of a sub-directory, and their
   checkpoints in one bucket. *)

SaveBucket == Save({DirectoryModel}, {B1}, MaxCheckpointClock)
SaveNotebook == Save({NotebookModel}, {N, N2}, MaxCheckpointClock)
SaveCheckpointedFile == Save({FileModel}, {DX}, MaxCheckpointClock)
CreateAny == CreateCheckpoint({N, N2, DX}, MaxCheckpointClock)
DeleteAnyCheckpoint == DeleteCheckpoint({N, N2, DX}, MaxCheckpointClock)
ListAny == ListCheckpoints({N, N2, DX}, MaxCheckpointClock)
GetAnyNotebookCheckpoint == GetNotebookCheckpoint({N}, MaxCheckpointClock)

NextCheckpoints ==
    \/ SaveBucket
    \/ SaveNotebook
    \/ SaveCheckpointedFile
    \/ CreateAny
    \/ DeleteAnyCheckpoint
    \/ ListAny
    \/ GetAnyNotebookCheckpoint

SpecCheckpoints == Init /\ [][NextCheckpoints]_vars

(* SpecContent: the contents of files, requests save refuses, and the
   hooks. *)

T == B1 \o <<Slash, "t">>                    \* b1/t

\* "aA==", the base64 of the byte 104 as base64.b64encode writes it; the
\* same with the newline base64.encodebytes ends it with; "/w==", the
\* base64 of the byte 255, which no UTF-8 text holds.
Base64Model ==
    [type |-> "file", format |-> "base64",
     content |-> [kind |-> "text", text |-> <<97, 65, 61, 61>>]]
Base64LineModel ==
    [type |-> "file", format |-> "base64",
     content |-> [kind |-> "text", text |-> <<97, 65, 61, 61, 10>>]]
BinaryModel ==
    [type |-> "file", format |-> "base64",
     content |-> [kind |-> "text", text |-> <<47, 119, 61, 61>>]]
\* the text "é€": two bytes and three bytes of UTF-8
AccentModel ==
    [type |-> "file", format |-> "text",
     content |-> [kind |-> "text", text |-> <<233, 8364>>]]

\* Requests save refuses: no type, no content, a type save does not know.
NoTypeModel == [content |-> Text, format |-> "text"]
NoContentModel == [type |-> "file", format |-> "text"]
UnknownTypeModel == [type |-> "blob", content |-> Text, format |-> "text"]

GetFile(paths, formats, clock) ==
    \E path \in paths, format \in formats :
        LET r == get(World, Str(path), TRUE, "None", format)
        IN /\ Becomes(r.w, clock)
           /\ result' = [op |-> "get", path |-> path, format |-> format,
                         exc |-> r.exc,
                         ret |-> IF r.exc = "none" THEN r.model ELSE None]

InitContent ==
    /\ buckets = {}
    /\ blobs = [x \in {} |-> None]
    /\ now = 0
    /\ cache_buckets = TRUE
    /\ cache_set = FALSE
    /\ bucket_cache = {}
    /\ created = <<>>
    /\ hooks \in BOOLEAN
    /\ hook_log = <<>>
    /\ result = [op |-> "init"]

SaveContentBucket == Save({DirectoryModel}, {B1}, MaxContentClock)
SaveContent ==
    Save({FileModel, AccentModel, Base64Model, Base64LineModel, BinaryModel},
         {F, T}, MaxContentClock)
SaveRefused ==
    \/ Save({NoTypeModel, NoContentModel, UnknownTypeModel}, {F},
            MaxContentClock)
    \/ Save({FileModel}, {B1}, MaxContentClock)
GetContent == GetFile({F, T}, {"None", "text", "base64"}, MaxContentClock)

NextContent ==
    \/ SaveContentBucket
    \/ SaveContent
    \/ SaveRefused
    \/ GetContent

SpecContent == InitContent /\ [][NextContent]_vars

-----------------------------------------------------------------------------
(* SpecCache: the bucket cache, switched on or off, a bucket the backend
   denies, and another client of the backend that deletes buckets. *)

B3 == <<"b", "3">>
B3D == B3 \o <<Slash, "d", Slash>>           \* b3/d/
B3F == B3 \o <<Slash, "f">>                  \* b3/f
B1D == B1 \o <<Slash, "d", Slash>>           \* b1/d/

InitCache ==
    /\ buckets = {}
    /\ blobs = [x \in {} |-> None]
    /\ now = 0
    /\ cache_buckets \in BOOLEAN
    /\ cache_set = FALSE
    /\ bucket_cache = {}
    /\ created = <<>>
    /\ hooks = FALSE
    /\ hook_log = <<>>
    /\ result = [op |-> "init"]

\* What the other client of the backend may do during one operation: nothing,
\* or delete one of the buckets before one of the operation's round trips.
Strikes ==
    {NoStrike} \cup {[at |-> k, bucket |-> b] :
                        k \in 1..MaxRoundTrips, b \in {B1, B2}}

\* save, delete_file and dir_exists while the other client acts.
SaveAmid(models, paths, clock) ==
    \E model \in models, path \in paths, strike \in Strikes :
        LET r == save(Amid(0, strike), model, path, "None")
        IN /\ Becomes(r.w, clock)
           /\ result' = [op |-> "save", model |-> model, path |-> path,
                         type |-> model.type, exc |-> r.exc]

DeleteFileAmid(paths, clock) ==
    \E path \in paths, strike \in Strikes :
        LET r == delete_file(Amid(0, strike), path)
        IN /\ Becomes(r.w, clock)
           /\ result' = [op |-> "delete_file", path |-> path, exc |-> r.exc]

DirExistsAmid(paths, clock) ==
    \E path \in paths, strike \in Strikes :
        LET r == dir_exists(Amid(0, strike), path)
        IN /\ Becomes(r.w, clock)
           /\ result' = [op |-> "dir_exists", path |-> path, exc |-> r.exc,
                         ret |-> IF r.exc = "none" THEN r.ret ELSE FALSE]

\* get with or without the content.
GetWith(paths, contents, strikes, clock) ==
    \E path \in paths, content \in contents, seed \in HashSeeds,
       strike \in strikes :
        LET r == get(Amid(seed, strike), Str(path), content, "None", "None")
        IN /\ Becomes(r.w, clock)
           /\ result' = [op |-> "get", path |-> path, content |-> content,
                         exc |-> r.exc,
                         ret |-> IF r.exc = "none" THEN r.model ELSE None]

IsHidden(paths, clock) ==
    \E path \in paths, strike \in Strikes :
        LET r == is_hidden(Amid(0, strike), path)
        IN /\ Becomes(r.w, clock)
           /\ result' = [op |-> "is_hidden", path |-> path, exc |-> r.exc,
                         ret |-> r.ret]

\* _fetch; `stale` tells that the cache held the bucket of the path when
\* the backend no longer did.
Fetch(paths, contents, clock) ==
    \E path \in paths, content \in contents, seed \in HashSeeds,
       strike \in Strikes :
        LET r == _fetch(Amid(seed, strike), path, content)
        IN /\ Becomes(r.w, clock)
           /\ result' = [op |-> "fetch", path |-> path, content |-> content,
                         stale |-> _parse_path(path)[1]
                                       \in bucket_cache \ buckets,
                         exc |-> r.exc,
                         exists |-> IF r.exc = "none" THEN r.exists
                                    ELSE FALSE,
                         payload |-> IF r.exc = "none" THEN r.payload
                                     ELSE None]

\* Another client of the backend deletes a bucket and what it holds: what
\* makes the listing of a bucket the program has cached raise NotFound.
ExternalDelete(names) ==
    \E b \in names \cap buckets :
        /\ buckets' = buckets \ {b}
        /\ blobs' = [x \in {y \in DOMAIN blobs : y[1] # b} |-> blobs[x]]
        /\ result' = [op |-> "external_delete", path |-> b]
        /\ UNCHANGED <<now, cache_buckets, cache_set, bucket_cache, created,
                       hooks, hook_log>>

SaveCacheBucket == SaveAmid({DirectoryModel}, {B1, B2}, MaxCacheClock)
SaveCacheFile == SaveAmid({FileModel}, {F}, MaxCacheClock)
DeleteCache == DeleteFileAmid({B1, B2, F}, MaxCacheClock)
DeletedElsewhere == ExternalDelete({B1, B2})
FetchCache == Fetch({B1, B1D, F, B3D}, BOOLEAN, MaxCacheClock)
GetForbidden == GetWith({B3D, B3F, B1}, BOOLEAN, Strikes, MaxCacheClock)
DirExistsCache == DirExistsAmid({B1, B3, B3D}, MaxCacheClock)
IsHiddenCache == IsHidden({B1, B2, B3}, MaxCacheClock)

NextCache ==
    \/ SaveCacheBucket
    \/ SaveCacheFile
    \/ DeleteCache
    \/ DeletedElsewhere
    \/ FetchCache
    \/ GetForbidden
    \/ DirExistsCache
    \/ IsHiddenCache

SpecCache == InitCache /\ [][NextCache]_vars

-----------------------------------------------------------------------------
(* SpecOwnCache: the bucket cache switched on, and no client of the backend
   but the manager. *)

FileExists(paths, clock) ==
    \E path \in paths :
        LET r == file_exists(World, path)
        IN /\ Becomes(r.w, clock)
           /\ result' = [op |-> "file_exists", path |-> path, exc |-> r.exc,
                         ret |-> r.ret]

SaveOwnBucket == Save({DirectoryModel}, {B1, B2}, MaxCacheClock)
SaveOwnFile == Save({FileModel}, {F, E}, MaxCacheClock)
DeleteOwn == DeleteFile({B1, B2, F, E}, MaxCacheClock)
RenameOwn ==
    RenameFile({<<F, B2 \o <<Slash, "f">>>>, <<B1, B2>>}, MaxCacheClock)
FileExistsOwn == FileExists({F, E, B1}, MaxCacheClock)
DirExistsOwn == DirExists({B1, B2, B3}, MaxCacheClock)
GetOwn ==
    GetWith({<<>>, B1, B2, F, B3D}, BOOLEAN, {NoStrike}, MaxCacheClock)

NextOwnCache ==
    \/ SaveOwnBucket
    \/ SaveOwnFile
    \/ DeleteOwn
    \/ RenameOwn
    \/ FileExistsOwn
    \/ DirExistsOwn
    \/ GetOwn

SpecOwnCache == Init /\ [][NextOwnCache]_vars

-----------------------------------------------------------------------------
(* SpecMarkers: one directory and one file of a bucket, each named with and
   without a trailing "/". *)

FSlash == F \o <<Slash>>                     \* b1/f/

SaveMarkerBucket == Save({DirectoryModel}, {B1}, MaxMarkerClock)
SaveMarked == Save({DirectoryModel}, {D, DSlash, F, FSlash}, MaxMarkerClock)
SaveBelow == Save({FileModel}, {DX, F}, MaxMarkerClock)
DeleteMarked == DeleteFile({D, DSlash, DX, F}, MaxMarkerClock)
DirExistsMarked == DirExists({D, DSlash, F, FSlash}, MaxMarkerClock)

NextMarkers ==
    \/ SaveMarkerBucket
    \/ SaveMarked
    \/ SaveBelow
    \/ DeleteMarked
    \/ DirExistsMarked

SpecMarkers == Init /\ [][NextMarkers]_vars

-----------------------------------------------------------------------------
(* SpecSiblings: files whose names start alike, and their checkpoints. *)

F2 == B1 \o <<Slash, "f", "2">>              \* b1/f2
FX == B1 \o <<Slash, "f", Slash, "x">>       \* b1/f/x

SaveSiblingBucket == Save({DirectoryModel}, {B1}, MaxSiblingClock)
SaveSibling == Save({FileModel}, {F, F2, FX}, MaxSiblingClock)
DeleteSibling == DeleteFile({F, F2}, MaxSiblingClock)
CreateSiblingCheckpoint == CreateCheckpoint({F, F2}, MaxSiblingClock)
DeleteSiblingCheckpoint == DeleteCheckpoint({F, F2}, MaxSiblingClock)
GetSiblingFileCheckpoint == GetFileCheckpoint({F, F2}, MaxSiblingClock)
GetSiblingNotebookCheckpoint == GetNotebookCheckpoint({F}, MaxSiblingClock)
RenameSiblingCheckpoint ==
    RenameCheckpoint({<<F, B1 \o <<Slash, "g">>>>, <<F, E>>},
                     MaxSiblingClock)

NextSiblings ==
    \/ SaveSiblingBucket
    \/ SaveSibling
    \/ DeleteSibling
    \/ CreateSiblingCheckpoint
    \/ DeleteSiblingCheckpoint
    \/ GetSiblingFileCheckpoint
    \/ GetSiblingNotebookCheckpoint
    \/ RenameSiblingCheckpoint

SpecSiblings == Init /\ [][NextSiblings]_vars

-----------------------------------------------------------------------------
(* Properties.  Keys(b) are the names stored in bucket b, Under(b, prefix)
   those that start with the prefix; a step "ran" an operation when the
   result it leaves names that operation and its arguments. *)

Keys(b) == {x[2] : x \in {y \in DOMAIN blobs : y[1] = b}}
Under(b, prefix) == {k \in Keys(b) : StartsWith(k, prefix)}
Rest(k, prefix) == SubSeq(k, Len(prefix) + 1, Len(k))

RanRename(old_path, new_path) ==
    /\ result'.op = "rename_file"
    /\ result'.path = old_path
    /\ result'.new_path = new_path

\* The step moved every object of bucket ob under old_prefix to bucket nb,
\* its name's old_prefix replaced by new_prefix and its bytes kept, and left
\* every other object alone.
MovedAll(ob, old_prefix, nb, new_prefix) ==
    /\ \A k \in Under(ob, old_prefix) :
          /\ <<ob, k>> \notin DOMAIN blobs'
          /\ <<nb, new_prefix \o Rest(k, old_prefix)>> \in DOMAIN blobs'
          /\ blobs'[<<nb, new_prefix \o Rest(k, old_prefix)>>].data
                = blobs[<<ob, k>>].data
    /\ \A x \in DOMAIN blobs :
          ~(x[1] = ob /\ StartsWith(x[2], old_prefix)) =>
              x \in DOMAIN blobs' /\ blobs'[x].data = blobs[x].data

\* C1: rename_file of a directory b1/d/ with children to b2/e/, in another
\* container that exists, leaves every child of b1/d/ stored under b2/e/
\* with its bytes, and nothing under b1/d/.
C1_CrossContainerDirectoryRename ==
    [][(/\ RanRename(DSlash, E \o <<Slash>>)
        /\ {B1, B2} \subseteq buckets
        /\ <<B1, <<"d", Slash, "x">>>> \in DOMAIN blobs)
       => /\ result'.exc = "none"
          /\ MovedAll(B1, <<"d", Slash>>, B2, <<"e", Slash>>)]_vars

\* C2: rename_file of a directory b1/d to b1/e in the same container moves
\* every object under b1/d/, at any depth, to the same relative name under
\* b1/e/ and leaves nothing under b1/d/.
C2_SameContainerDirectoryRename ==
    [][(/\ RanRename(D, B1 \o <<Slash, "e">>)
        /\ B1 \in buckets
        /\ Under(B1, <<"d", Slash>>) # {})
       => /\ result'.exc = "none"
          /\ MovedAll(B1, <<"d", Slash>>, B1, <<"e", Slash>>)]_vars

\* The step moved the one object `key` of bucket ob to new_key of bucket nb.
MovedOne(ob, key, nb, new_key) ==
    /\ <<ob, key>> \notin DOMAIN blobs'
    /\ <<nb, new_key>> \in DOMAIN blobs'
    /\ blobs'[<<nb, new_key>>].data = blobs[<<ob, key>>].data
    /\ \A x \in DOMAIN blobs \ {<<ob, key>>} :
          x \in DOMAIN blobs' /\ blobs'[x].data = blobs[x].data
    /\ DOMAIN blobs' \subseteq DOMAIN blobs \cup {<<nb, new_key>>}

\* C3: rename_file of the single object b1/f, to b1/g in its container or to
\* b2/f in another container that exists, leaves the object stored under
\* the new name with its bytes, nothing under the old name, and every other
\* object where it was.
C3_SingleObjectRename ==
    [][/\ (/\ RanRename(F, B1 \o <<Slash, "g">>)
           /\ <<B1, <<"f">>>> \in DOMAIN blobs)
          => /\ result'.exc = "none"
             /\ MovedOne(B1, <<"f">>, B1, <<"g">>)
       /\ (/\ RanRename(F, B2 \o <<Slash, "f">>)
           /\ B2 \in buckets
           /\ <<B1, <<"f">>>> \in DOMAIN blobs)
          => /\ result'.exc = "none"
             /\ MovedOne(B1, <<"f">>, B2, <<"f">>)]_vars

\* C4: after delete_file of the directory b1/d (written with or without its
\* trailing "/") has returned without an error, no object under b1/d/ is
\* left, at any depth, and dir_exists(b1/d) is false.
C4_DeleteDirectoryRemovesAll ==
    (/\ result.op = "delete_file"
     /\ result.path \in {D, DSlash}
     /\ result.exc = "none")
    => /\ Under(B1, <<"d", Slash>>) = {}
       /\ ~dir_exists(World, D).ret

\* The directories the properties ask about: the path as a caller writes
\* it, its bucket, and its name in the bucket.
Dir(path, bucket, key) == [path |-> path, bucket |-> bucket, key |-> key]
Dirs == {Dir(D, B1, <<"d">>), Dir(DS, B1, <<"d", Slash, "s">>),
         Dir(DP, B1, <<"d", Slash, "__pycache__">>), Dir(F, B1, <<"f">>),
         Dir(E, B2, <<"e">>)}

\* C5: dir_exists is true of the empty path; of a container's root exactly
\* when the container exists; of any other path exactly when its container
\* exists and some object's name starts with the path's name followed by
\* "/", whether or not a marker object is among them.  The trailing "/" and
\* a leading "/" of the path make no difference.
C5_DirExists ==
    /\ dir_exists(World, <<>>).ret
    /\ dir_exists(World, <<Slash>>).ret
    /\ \A b \in {B1, B2} : \A p \in {b, b \o <<Slash>>, <<Slash>> \o b} :
          dir_exists(World, p).ret = (b \in buckets)
    /\ \A c \in Dirs :
          \A p \in {c.path, c.path \o <<Slash>>, <<Slash>> \o c.path} :
             /\ dir_exists(World, p).exc = "none"
             /\ dir_exists(World, p).ret
                   = (/\ c.bucket \in buckets
                      /\ Under(c.bucket, c.key \o <<Slash>>) # {})

\* dir_exists(b1/d) has answered true while b1/d has no marker object and no
\* child of its own, only the object b1/d/s/z below it.
C5_Witness ==
    /\ result.op = "dir_exists"
    /\ result.path = D
    /\ result.ret
    /\ Under(B1, <<"d">>) = {<<"d", Slash, "s", Slash, "z">>}

\* The immediate children of the directory `prefix` of bucket b that pass
\* the visibility filter, by the paths their entries carry: an object
\* directly under the prefix by its full path, a sub-directory by its path
\* with a trailing "/".  The name of a child is what follows the prefix, up
\* to the next "/".
ChildName(k, prefix) ==
    IF Contains(Rest(k, prefix), Slash)
    THEN SubSeq(Rest(k, prefix), 1, Find(Rest(k, prefix), Slash) - 1)
    ELSE Rest(k, prefix)
VisibleChildren(b, prefix) ==
    {b \o <<Slash>> \o prefix \o ChildName(k, prefix)
        \o (IF Contains(Rest(k, prefix), Slash) THEN <<Slash>> ELSE <<>>) :
     k \in {j \in Under(b, prefix) :
              /\ ChildName(j, prefix) # <<>>
              /\ should_list(ChildName(j, prefix))}}

\* C6: get of an existing directory with content returns one entry without
\* content for each immediate child that passes the visibility filter, an
\* object directly under it or a direct sub-directory, each once; none for
\* the directory's own marker and none for a deeper descendant.
C6_DirectoryListing ==
    \A c \in {Dir(DSlash, B1, <<"d">>), Dir(DS \o <<Slash>>, B1,
                                            <<"d", Slash, "s">>)} :
       (c.bucket \in buckets /\ Under(c.bucket, c.key \o <<Slash>>) # {})
       => Bind(get(World, Str(c.path), TRUE, "None", "None"), LAMBDA g :
            /\ g.exc = "none"
            /\ g.model.type = "directory"
            /\ Len(g.model.content)
                  = Cardinality(VisibleChildren(c.bucket, c.key \o <<Slash>>))
            /\ {g.model.content[i].path : i \in 1..Len(g.model.content)}
                  = VisibleChildren(c.bucket, c.key \o <<Slash>>)
            /\ \A i \in 1..Len(g.model.content) :
                  g.model.content[i].content = None)

RanSaveDirectory(path) ==
    /\ result'.op = "save"
    /\ result'.type = "directory"
    /\ result'.path = path

\* The key without the "/" it ends with.
RECURSIVE Stem(_)
Stem(key) ==
    IF key # <<>> /\ key[Len(key)] = Slash
    THEN Stem(SubSeq(key, 1, Len(key) - 1)) ELSE key

\* The marker objects of the directory `key` of bucket b among the objects
\* bl: the objects of the directory content type whose name is the key,
\* without the "/" it may end with, followed by one "/" or more and
\* nothing else.
Markers(bl, b, key) ==
    {x \in DOMAIN bl :
        /\ x[1] = b
        /\ bl[x].content_type = DirType
        /\ Len(x[2]) > Len(Stem(key))
        /\ SubSeq(x[2], 1, Len(Stem(key))) = Stem(key)
        /\ \A k \in (Len(Stem(key)) + 1)..Len(x[2]) : x[2][k] = Slash}

\* The call of save that follows the step: the same directory saved again.
SavedAgain(path) == save(World', DirectoryModel, path, "None")

\* The paths a directory is saved at, with the key each is given with.
SavedDirectories ==
    {Dir(D, B1, <<"d">>), Dir(DSlash, B1, <<"d", Slash>>),
     Dir(F, B1, <<"f">>), Dir(FSlash, B1, <<"f", Slash>>)}

\* What the step wrote: the objects stored after it and not before.
Written == DOMAIN blobs' \ DOMAIN blobs

\* C7, as stated: save of a directory at a non-root path of an existing
\* container, called twice in a row, raises no error either time; after it
\* exactly one marker object of the directory is stored; the second call
\* leaves the store as the first left it; dir_exists is true after each.
C7_SaveDirectoryTwice ==
    [][\A c \in SavedDirectories :
          (RanSaveDirectory(c.path) /\ c.bucket \in buckets)
          => /\ result'.exc = "none"
             /\ dir_exists(World', c.path).ret
             /\ SavedAgain(c.path).exc = "none"
             /\ SavedAgain(c.path).w.blobs = blobs'
             /\ dir_exists(SavedAgain(c.path).w, c.path).ret
             /\ Cardinality(Markers(SavedAgain(c.path).w.blobs,
                                    c.bucket, c.key)) = 1]_vars

\* C7, amended: save of a directory at a non-root path of an existing
\* container, called twice in a row, raises no error either time; the
\* second call leaves the store as the first left it; dir_exists is true
\* after each.  The first call changes no object stored before it, and
\* writes one object, of no bytes and of the directory content type, named
\* the key as given followed by "//", exactly when no stored name starts
\* with the key as given followed by "/"; otherwise it writes nothing.
\* The marker objects of the directory are then those stored before and
\* the one written, if any.
C7_SaveDirectoryTwiceAmended ==
    [][\A c \in SavedDirectories :
          (RanSaveDirectory(c.path) /\ c.bucket \in buckets)
          => /\ result'.exc = "none"
             /\ dir_exists(World', c.path).ret
             /\ SavedAgain(c.path).exc = "none"
             /\ SavedAgain(c.path).w.blobs = blobs'
             /\ dir_exists(SavedAgain(c.path).w, c.path).ret
             /\ \A x \in DOMAIN blobs :
                   x \in DOMAIN blobs' /\ blobs'[x] = blobs[x]
             /\ Written
                   = IF Under(c.bucket, c.key \o <<Slash>>) = {}
                     THEN {<<c.bucket, c.key \o <<Slash, Slash>>>>}
                     ELSE {}
             /\ \A x \in Written :
                   /\ blobs'[x].data = <<>>
                   /\ blobs'[x].content_type = DirType
             /\ Markers(SavedAgain(c.path).w.blobs, c.bucket, c.key)
                   = Markers(blobs, c.bucket, c.key) \cup Written]_vars

\* save of the directory b1/d/, named with its trailing "/", has returned
\* where the object b1/d/x below it was stored: the object d/// it wrote is
\* the one marker object of the directory.
C7_Witness ==
    /\ result.op = "save"
    /\ result.type = "directory"
    /\ result.path = DSlash
    /\ result.exc = "none"
    /\ Markers(blobs, B1, <<"d">>) = {<<B1, <<"d", Slash, Slash, Slash>>>>}
    /\ <<B1, <<"d", Slash, "x">>>> \in DOMAIN blobs

\* C8: save of a directory at b1/f, where the regular object b1/f is stored,
\* raises an error and leaves every object as it was.
C8_SaveDirectoryOverFile ==
    [][(RanSaveDirectory(F) /\ <<B1, <<"f">>>> \in DOMAIN blobs)
       => /\ result'.exc # "none"
          /\ blobs' = blobs]_vars

-----------------------------------------------------------------------------
(* Properties of the checkpoints, under SpecCheckpoints. *)

\* The ids of the checkpoints of the file `path` among the objects bl: the
\* ids u with an object stored at the checkpoint path of u and the file.
\* The id u as list_checkpoints gives it when line 126 cuts it out whole.
IdOf(u) == Last36(<<u>>)

CheckpointsOf(bl, path) ==
    {u \in Uuids :
        <<_parse_path(_get_checkpoint_path(u, path))[1],
          _parse_path(_get_checkpoint_path(u, path))[2]>> \in DOMAIN bl}

RanSaveNotebook(path) ==
    /\ result'.op = "save"
    /\ result'.type = "notebook"
    /\ result'.path = path
    /\ result'.exc = "none"

\* C9: a save of a notebook that returns without an error takes the number
\* n of checkpoints of its path to max(n, 1), whatever checkpoints other
\* files of the directory have; when n was 0, list_checkpoints of the path
\* returns exactly one entry afterwards.
C9_NotebookSaveKeepsACheckpoint ==
    [][\A path \in {N, N2} :
          RanSaveNotebook(path)
          => /\ Cardinality(CheckpointsOf(blobs', path))
                  = IF CheckpointsOf(blobs, path) = {} THEN 1
                    ELSE Cardinality(CheckpointsOf(blobs, path))
             /\ CheckpointsOf(blobs, path) = {}
                  => Len(list_checkpoints(World', path).ret) = 1]_vars

\* C10: list_checkpoints of a notebook and of a file returns its entries in
\* descending order of last-modified time, whatever checkpoints were
\* created and deleted before; of two checkpoints of the path that are
\* stored, the one created later comes before the one created earlier,
\* each under its id.
C10_ListCheckpointsNewestFirst ==
    \A path \in {N, N2, DX} :
       Bind(list_checkpoints(World, path), LAMBDA l :
         l.exc = "none"
         => /\ \A i, j \in 1..Len(l.ret) :
                  i < j => l.ret[i].last_modified >= l.ret[j].last_modified
            /\ \A i, j \in 1..Len(created) :
                  (/\ i < j
                   /\ {created[i], created[j]} \subseteq
                         CheckpointsOf(blobs, path))
                  => \E m, n \in 1..Len(l.ret) :
                        /\ m < n
                        /\ l.ret[m].id = IdOf(created[j])
                        /\ l.ret[n].id = IdOf(created[i]))

-----------------------------------------------------------------------------
(* Properties of file contents, refused requests and hooks, under
   SpecContent. *)

\* C11: right after a file model of format f and content c was saved at a
\* path, get of the path with format f returns format f and content c, for
\* f "text" and for f "base64".
C11_FileRoundTrip ==
    (/\ result.op = "save"
     /\ result.type = "file"
     /\ result.exc = "none")
    => Bind(get(World, Str(result.path), TRUE, "None", result.model.format),
            LAMBDA g :
         /\ g.exc = "none"
         /\ g.model.format = result.model.format
         /\ g.model.content = result.model.content)

\* The bytes of the files of SpecContent that are UTF-8 text, and those
\* that are not.
Utf8Data == {<<104>>, <<195, 169, 226, 130, 172>>}
OtherData == {<<255>>}

\* C12: get of a stored file whose bytes are not UTF-8 raises a 400 when
\* format "text" is asked for, and returns format "base64" when no format
\* is; get of a file whose bytes are UTF-8, no format asked for, returns
\* format "text".  No object changes in any of these calls.
C12_NonUtf8File ==
    \A path \in {F, T} :
       (B1 \in buckets /\ <<B1, _parse_path(path)[2]>> \in DOMAIN blobs)
       => /\ blobs[<<B1, _parse_path(path)[2]>>].data \in Utf8Data \cup OtherData
          /\ Bind(get(World, Str(path), TRUE, "None", "text"), LAMBDA g :
               /\ g.w.blobs = blobs
               /\ g.w.buckets = buckets
               /\ blobs[<<B1, _parse_path(path)[2]>>].data \in OtherData
                     => g.exc = "HTTP400")
          /\ Bind(get(World, Str(path), TRUE, "None", "None"), LAMBDA g :
               /\ g.w.blobs = blobs
               /\ g.w.buckets = buckets
               /\ g.exc = "none"
               /\ g.model.format
                     = IF blobs[<<B1, _parse_path(path)[2]>>].data \in OtherData
                       THEN "base64" ELSE "text")

\* get of b1/f with format "text" has raised the 400 while the bytes of
\* b1/f are not UTF-8.
C12_Witness ==
    /\ result.op = "get"
    /\ result.path = F
    /\ result.format = "text"
    /\ result.exc = "HTTP400"
    /\ <<B1, <<"f">>>> \in DOMAIN blobs
    /\ blobs[<<B1, <<"f">>>>].data \in OtherData

\* C13: save of a model whose type is none of notebook, file and directory,
\* with content, at a non-root path, raises a 400 and writes no object.
C13_UnknownType ==
    [][(/\ result'.op = "save"
        /\ result'.model = UnknownTypeModel
        /\ result'.path = F)
       => /\ result'.exc = "HTTP400"
          /\ blobs' = blobs]_vars

\* C14: a save that returns, with a post-save hook configured, has called
\* the hook once, after the model was fetched again, with the saved path.
C14_PostSaveHookCalled ==
    [][(/\ result'.op = "save"
        /\ result'.exc = "none"
        /\ hooks)
       => /\ Len(hook_log') > Len(hook_log)
          /\ hook_log'[Len(hook_log')].hook = "post"
          /\ StripSlash(hook_log'[Len(hook_log')].path) \in
                {result'.path, result'.path \o <<Slash>>}
          /\ Cardinality({i \in 1..Len(hook_log') :
                             hook_log'[i].hook = "post"})
                = Cardinality({i \in 1..Len(hook_log) :
                                  hook_log[i].hook = "post"}) + 1]_vars

\* The requests save refuses at once, with the error of each: a model
\* without type, a file model without content, a file model at a bucket's
\* root.
Refused ==
    {[model |-> NoTypeModel, path |-> F, exc |-> "HTTP400"],
     [model |-> NoContentModel, path |-> F, exc |-> "HTTP400"],
     [model |-> NoContentModel, path |-> B1, exc |-> "HTTP400"],
     [model |-> FileModel, path |-> B1, exc |-> "HTTP403"],
     [model |-> FileModel, path |-> B1 \o <<Slash>>, exc |-> "HTTP403"],
     [model |-> NotebookModel, path |-> B2, exc |-> "HTTP403"]}

\* C16: in every state, save of a model without type or of a non-directory
\* model without content raises a 400, and save of a non-directory model at
\* a bucket's root is refused with a 403; the pre-save hook is not called,
\* no backend call is made: objects, buckets, clock, bucket cache and hook
\* log are as before.
C16_RefusedBeforeAnyEffect ==
    \A r \in Refused :
       Bind(save(World, r.model, r.path, "None"), LAMBDA s :
         /\ s.exc = r.exc
         /\ s.w = World)

\* save of a model without type has raised the 400 with the hooks
\* configured and the bucket there.
C16_Witness ==
    /\ result.op = "save"
    /\ result.model = NoTypeModel
    /\ result.exc = "HTTP400"
    /\ hooks
    /\ B1 \in buckets
    /\ hook_log # <<>>

-----------------------------------------------------------------------------
(* Properties of _fetch without content, under Spec. *)

\* The paths of Spec whose key does not end in "/".
FilePaths == {F, DX, DH, DSZ, DPX, E}

\* C17: in every state and for every path whose key does not end in "/",
\* _fetch without content reports that the path exists exactly when a blob
\* is stored at it, the same as _fetch with content reports.
C17_FetchWithoutContent ==
    \A P \in FilePaths :
       Bind(_fetch(World, P, FALSE), LAMBDA f :
         /\ f.exc = "none"
         /\ f.exists = blob_exists(World, _parse_path(P)[1],
                                   _parse_path(P)[2])
         /\ f.exists = _fetch(World, P, TRUE).exists)

-----------------------------------------------------------------------------
(* Properties of the bucket cache and of a denied bucket, under
   SpecCache. *)

\* C15: in every state, for a bucket the backend denies, _fetch of a path
\* in it returns (True, None), get of a directory path and of a file path
\* in it, with the content and without, returns a model and raises nothing,
\* and dir_exists returns True.
C15_ForbiddenNeverSurfaced ==
    \A path \in {B3D, B3F}, content \in BOOLEAN :
       /\ Bind(_fetch(World, path, content), LAMBDA f :
            f.exc = "none" /\ f.exists /\ f.payload = None)
       /\ get(World, Str(path), content, "None", "None").exc = "none"
       /\ Bind(dir_exists(World, path), LAMBDA d :
            d.exc = "none" /\ d.ret)

\* C18: with the cache switched off, no state holds a cache or an entry of
\* it, delete_file of an empty bucket that is there removes the bucket and
\* raises nothing, and _fetch of a bucket or of a directory path in it,
\* when another client has deleted the bucket by the time _fetch is done
\* with the backend, raises nothing and reports exists False.
C18_CacheSwitchedOff ==
    ~cache_buckets =>
       /\ ~cache_set
       /\ bucket_cache = {}
       /\ \A b \in {B1, B2} :
             (b \in buckets /\ BucketKeys(World, b) = {})
             => Bind(delete_file(World, b), LAMBDA d :
                  /\ d.exc = "none"
                  /\ b \notin d.w.buckets
                  /\ ~d.w.cache_set)
       /\ \A b \in {B1, B2}, k \in 1..MaxRoundTrips, content \in BOOLEAN :
             \A path \in {b, b \o <<Slash, "d", Slash>>} :
                Bind(_fetch(Amid(0, [at |-> k, bucket |-> b]), path,
                            content), LAMBDA f :
                  b \notin f.w.buckets =>
                     /\ f.exc = "none"
                     /\ ~f.exists
                     /\ ~f.w.cache_set)

\* The world once an operation has returned: the other client's deletion,
\* if it has not happened, is no part of what follows.
Returned(w) == [w EXCEPT !.calls = 0, !.strike = NoStrike]

\* C19: with the cache switched on, in every state, whether or not another
\* client deletes the bucket before one of the operation's round trips:
\* when delete_file of a bucket completes, and when _fetch of a bucket or
\* of a directory path is done and the backend does not have the bucket
\* (the listing of a bucket the cache holds gets NotFound), the cache
\* holds no entry for the bucket afterwards, that _fetch reports
\* exists False, and the next lookup asks the backend: it finds no bucket.
C19_EvictedWhenGone ==
    cache_buckets =>
       \A b \in {B1, B2}, strike \in Strikes :
          /\ Bind(delete_file(Amid(0, strike), b), LAMBDA d :
               d.exc = "none" =>
                  /\ b \notin d.w.buckets
                  /\ b \notin d.w.bucket_cache
                  /\ _get_bucket(Returned(d.w), b, TRUE).exc = "NotFound")
          /\ \A path \in {b, b \o <<Slash, "d", Slash>>},
                content \in BOOLEAN :
                Bind(_fetch(Amid(0, strike), path, content), LAMBDA f :
                  b \notin f.w.buckets =>
                     /\ f.exc = "none"
                     /\ ~f.exists
                     /\ b \notin f.w.bucket_cache
                     /\ _get_bucket(Returned(f.w), b, TRUE).exc
                           = "NotFound")

\* _fetch has listed a bucket the cache held and the backend no longer
\* had, and the entry is gone.
C19_Witness ==
    /\ cache_buckets
    /\ result.op = "fetch"
    /\ result.path \in {B1, B1D}
    /\ result.stale
    /\ result.exc = "none"
    /\ ~result.exists
    /\ B1 \notin bucket_cache
    /\ B2 \in bucket_cache

\* What C20 says of a bucket name b that the cache does not hold: looked
\* up without throw it gives None and the entries of the cache stay as they
\* are, looked up with throw it raises NotFound, and once a directory model
\* is saved at the name a lookup gives the handle.
MissNotCached(b) ==
    /\ Bind(_get_bucket(World, b, FALSE), LAMBDA gb :
         /\ gb.exc = "none"
         /\ gb.bucket = None
         /\ gb.w.bucket_cache = bucket_cache
         /\ Bind(save(gb.w, DirectoryModel, b, "None"), LAMBDA s :
              /\ s.exc = "none"
              /\ _get_bucket(s.w, b, FALSE).bucket = Handle(b)))
    /\ _get_bucket(World, b, TRUE).exc = "NotFound"

\* C20 as it is stated: in every state, for every bucket the backend does
\* not have, the lookup without throw gives None and leaves the cache as it
\* is, a lookup after the bucket is created gives its handle, and the
\* lookup with throw raises NotFound.
C20_MissNotCached ==
    \A b \in {B1, B2} : b \notin buckets => MissNotCached(b)

\* C20 for the buckets the cache holds no entry of: in every state, for
\* every bucket that the backend does not have and the cache does not hold,
\* the lookup without throw gives None and leaves the cache as it is, a
\* lookup after the bucket is created gives its handle, and the lookup with
\* throw raises NotFound.
C20_MissNotCachedAmended ==
    \A b \in {B1, B2} :
       (b \notin buckets /\ b \notin bucket_cache) => MissNotCached(b)

\* is_hidden has looked up a bucket that is not there, with the cache on
\* and another bucket in it, and the cache holds no entry for the miss.
C20_Witness ==
    /\ cache_buckets
    /\ result.op = "is_hidden"
    /\ result.path = B1
    /\ result.ret
    /\ B1 \notin buckets
    /\ B1 \notin bucket_cache
    /\ B2 \in bucket_cache

-----------------------------------------------------------------------------
(* Properties of the checkpoints of files with like names, under
   SpecCheckpoints. *)

\* C22: in every state, list_checkpoints of a notebook returns exactly the
\* ids of the checkpoints stored for that notebook, those created for it
\* and not deleted, and none of a checkpoint of the other notebook of the
\* directory, whose base name starts with its own.
C22_ListOnlyOwnCheckpoints ==
    \A path \in {N, N2} :
       Bind(list_checkpoints(World, path), LAMBDA l :
         l.exc = "none"
         => {l.ret[i].id : i \in 1..Len(l.ret)}
              = {IdOf(u) : u \in CheckpointsOf(blobs, path)})

-----------------------------------------------------------------------------
(* Properties of the deletion of one object, under SpecSiblings. *)

\* The objects bl holds as the state does every object that is neither the
\* object `key` of bucket b nor under key + "/".
Untouched(bl, b, key) ==
    \A x \in DOMAIN blobs :
       ~(x[1] = b /\ (x[2] = key \/ StartsWith(x[2], Append(key, Slash))))
       => (x \in DOMAIN bl /\ bl[x] = blobs[x])

\* The world after the deletion of the object `key` of bucket b: no error,
\* the object gone, every other object as it was.
DeletedOnly(d, b, key) ==
    /\ d.exc = "none"
    /\ <<b, key>> \notin DOMAIN d.w.blobs
    /\ Untouched(d.w.blobs, b, key)

\* C21: in every state, delete_file of a path at which an object is stored
\* removes that object and leaves every object that is not under the
\* path + "/" as it was, the objects whose name merely starts with the
\* name of the deleted one (f2 beside f) included; so does
\* delete_checkpoint of a stored checkpoint of a file.
C21_DeleteOnlyThatObject ==
    \A P \in {F, F2} :
       /\ blob_exists(World, _parse_path(P)[1], _parse_path(P)[2])
            => DeletedOnly(delete_file(World, P),
                           _parse_path(P)[1], _parse_path(P)[2])
       /\ \A u \in CheckpointsOf(blobs, P) :
             DeletedOnly(delete_checkpoint(World, u, P),
                         _parse_path(_get_checkpoint_path(u, P))[1],
                         _parse_path(_get_checkpoint_path(u, P))[2])

-----------------------------------------------------------------------------
(* Properties of what rename_file keeps, under Spec. *)

\* Every object `k` of `keys` in bucket ob has its bytes in bl, at its own
\* name or at new_prefix + (its name without old_prefix) in bucket nb.
KeptOrMoved(bl, ob, keys, old_prefix, nb, new_prefix) ==
    \A k \in keys :
       \/ /\ <<ob, k>> \in DOMAIN bl
          /\ bl[<<ob, k>>].data = blobs[<<ob, k>>].data
       \/ /\ <<nb, new_prefix \o Rest(k, old_prefix)>> \in DOMAIN bl
          /\ bl[<<nb, new_prefix \o Rest(k, old_prefix)>>].data
                = blobs[<<ob, k>>].data

\* C23: in every state, whatever way rename_file ends, every object stored
\* under the old path before it has its bytes stored afterwards, at its old
\* name or at the new name that corresponds to it: for a directory and for
\* a single object, within the bucket and across buckets.  rename_file
\* writes nothing before it ends, so the store at every point of the call
\* is the store before it or the one after it.
C23_RenameKeepsACopy ==
    /\ KeptOrMoved(rename_file(World, DSlash, E \o <<Slash>>).w.blobs,
                   B1, Under(B1, <<"d", Slash>>), <<"d", Slash>>,
                   B2, <<"e", Slash>>)
    /\ KeptOrMoved(rename_file(World, D, B1 \o <<Slash, "e">>).w.blobs,
                   B1, Under(B1, <<"d", Slash>>), <<"d">>, B1, <<"e">>)
    /\ KeptOrMoved(rename_file(World, F, B1 \o <<Slash, "g">>).w.blobs,
                   B1, Keys(B1) \cap {<<"f">>}, <<"f">>, B1, <<"g">>)
    /\ KeptOrMoved(rename_file(World, F, B2 \o <<Slash, "f">>).w.blobs,
                   B1, Keys(B1) \cap {<<"f">>}, <<"f">>, B2, <<"f">>)

\* rename_file of the directory b1/d/, which holds objects, to b2/e/ in the
\* bucket b2, which exists, has ended, and the objects are under b1/d/.
C23_Witness ==
    /\ result.op = "rename_file"
    /\ result.path = DSlash
    /\ result.exc = "TypeError"
    /\ B2 \in buckets
    /\ Cardinality(Under(B1, <<"d", Slash>>)) >= 2

-----------------------------------------------------------------------------
(* Properties of the bucket cache when the manager alone changes the
   backend, under SpecOwnCache. *)

\* C24: with the cache switched on, in every state reached by get, save,
\* delete_file, rename_file, file_exists and dir_exists, every bucket the
\* cache holds is a bucket the backend has.
C24_NoStaleEntry == cache_buckets => bucket_cache \subseteq buckets

\* delete_file has deleted the bucket b1, which the cache held, while the
\* cache holds the bucket b2.
C24_Witness ==
    /\ cache_buckets
    /\ result.op = "delete_file"
    /\ result.path = B1
    /\ result.exc = "none"
    /\ B1 \notin buckets
    /\ bucket_cache = {B2}

=============================================================================
